---- MODULE Spec2Model ----
(***************************************************************************)
(* A model of the JGBF pipeline: the scraper's report-label codec          *)
(* (Scrape.py), the selective page converter with its worker pool          *)
(* (new2.py) and the Excel parser with its consolidation pivot             *)
(* (multiple.py).                                                          *)
(*                                                                         *)
(* Text is modelled by TLA+ strings, character by character (SubSeq, Len,  *)
(* \o).  The module is kept in ASCII, so the non-ASCII characters of the   *)
(* source are written with these stand-ins, none of which occurs in the    *)
(* source's own texts:                                                     *)
(*     ^   the negative glyph U+25B2 (black up-pointing triangle)          *)
(*     {   the full-width left parenthesis U+FF08                          *)
(*     }   the full-width right parenthesis U+FF09                         *)
(*     ;   the ideographic comma U+3001                                    *)
(*     <xx> one kanji or kana, named by a reading; the brackets keep a     *)
(*         substring test on stand-ins aligned with the characters, so     *)
(*         "k in s" on stand-ins holds exactly when it holds in the source *)
(* The full-width ampersand U+FF06 of the column descriptions is written   *)
(* & (the descriptions are only written out, never searched).              *)
(***************************************************************************)
EXTENDS Integers, Sequences, FiniteSets, TLC

VARIABLES
    all_data,      \* generate_output_file: its argument, a list of data
    workbook,      \* generate_output_file: the worksheet saved (or not)
    pivot_pc,      \* "ready" before the call, "saved" or "skipped" after
    report_label,  \* the date text of a row of the archive table
    pdf_filename,  \* the name the scraper stores the report under
    xlsx_stem,     \* the stem of the workbook the converter writes for it
    week_key,      \* the date code the parser derives from that stem
    date_pc,       \* "label", "stored", "ignored", "converted", "parsed"
    sheet,         \* one worksheet of a converted workbook: name, cell A2, rows
    sheet_date,    \* the date code of the workbook the sheet belongs to
    sheet_results, \* the data parsed from the sheet
    sheet_pc,      \* "ready" before the sheet is processed, "done" after
    excel_files,   \* process_folders: all_excel_files
    file_idx,      \* process_folders: how many of them are processed
    master_data_list,  \* process_folders: the data extracted so far
    data_from_one_file, \* process_folders: the data of the file processed last
    folders_pc,    \* "start", "files", "success", "no_data", "no_files"
    pdf_files,     \* process_pdfs_selectively: the PDF files, each with its pages
    all_page_jobs, \* the page jobs submitted to the pool
    pending,       \* the indexes of the jobs whose future is not yet consumed
    page_results,  \* the result records, in completion order
    docx_folder,   \* combined document of each pdf_name: its pages' results, in order
    excel_output,  \* workbook of each pdf_name: its sheets
    convert_pc,    \* "start", "converting", "done", "no_jobs"
    scraper_output_dir,   \* run_workflow: jpx_temp_storage after the scrape, or None
    folder_idx,    \* run_workflow: how many PDF folders are converted
    excel_output_folders, \* run_workflow: the workbooks of each output folder
    printed,       \* run_workflow: the reports printed so far
    exit_status,   \* the exit status of the orchestrator, Running before it ends
    orch_pc,       \* the stage run_workflow is in
    config,        \* Scrape.py: the settings of config.ini
    dropdown,      \* the options of the archive dropdown of the main page
    archive_pages, \* the rows of the report table of the page behind each url
    storage,       \* the paths of the files in jpx_temp_storage
    archive_urls,  \* JPXCompleteScraper.archive_urls, in insertion order
    urls_to_visit, \* run_complete_scrape: the pages to visit, in order
    page_idx,      \* run_complete_scrape: how many pages the loop has taken
    scraper_all_data,  \* JPXCompleteScraper.all_data: the entries downloaded
    failed_downloads,  \* JPXCompleteScraper.failed_downloads
    scrape_log,    \* what the scraper printed about pages and downloads
    scrape_pc      \* "start", "visiting", "halted", "complete", "returned"

pivotVars == <<all_data, workbook, pivot_pc>>
dateVars == <<report_label, pdf_filename, xlsx_stem, week_key, date_pc>>
sheetVars == <<sheet, sheet_date, sheet_results, sheet_pc>>
folderVars == <<excel_files, file_idx, master_data_list, data_from_one_file, folders_pc>>
convVars == <<pdf_files, all_page_jobs, pending, page_results, docx_folder,
              excel_output, convert_pc>>
orchVars == <<scraper_output_dir, folder_idx, excel_output_folders, printed, exit_status,
              orch_pc>>
scrapeVars == <<config, dropdown, archive_pages, storage, archive_urls, urls_to_visit,
                page_idx, scraper_all_data, failed_downloads, scrape_log, scrape_pc>>
vars == <<pivotVars, dateVars, sheetVars, folderVars, convVars, orchVars, scrapeVars>>

(***************************************************************************)
(* Python's str and dict operations, as the code uses them.                *)
(***************************************************************************)

\* k in s
Contains(s, k) ==
    \E i \in 1..(Len(s) - Len(k) + 1) : SubSeq(s, i, i + Len(k) - 1) = k

\* s.startswith(k)
StartsWith(s, k) == Len(s) >= Len(k) /\ SubSeq(s, 1, Len(k)) = k

\* s.replace(a, b), a not empty: every occurrence, left to right
RECURSIVE Replace(_, _, _)
Replace(s, a, b) ==
    LET at == {i \in 1..(Len(s) - Len(a) + 1) : SubSeq(s, i, i + Len(a) - 1) = a}
    IN  IF at = {} THEN s
        ELSE \* the leftmost occurrence, then the rest of the string
             LET i == CHOOSE x \in at : \A y \in at : x <= y
             IN  SubSeq(s, 1, i - 1) \o b \o Replace(SubSeq(s, i + Len(a), Len(s)), a, b)

\* the code points' order, for the characters that week keys and file names
\* are made of
OrdString == "-.0123456789ABCDEFGHIJKLMNOPQRSTUVWXYZ_abcdefghijklmnopqrstuvwxyz"
Ord(c) == CHOOSE i \in 1..Len(OrdString) : SubSeq(OrdString, i, i) = c

\* a < b for str: the first differing character decides, a proper prefix is less
RECURSIVE StrLess(_, _)
StrLess(a, b) ==
    IF b = "" THEN FALSE
    ELSE IF a = "" THEN TRUE
    ELSE IF SubSeq(a, 1, 1) = SubSeq(b, 1, 1)
         THEN StrLess(SubSeq(a, 2, Len(a)), SubSeq(b, 2, Len(b)))
         ELSE Ord(SubSeq(a, 1, 1)) < Ord(SubSeq(b, 1, 1))

\* sorted(S) for a collection of distinct strings
RECURSIVE Sorted(_)
Sorted(S) ==
    IF S = {} THEN <<>>
    ELSE LET m == CHOOSE x \in S : \A y \in S : x = y \/ StrLess(x, y)
         IN  <<m>> \o Sorted(S \ {m})

\* a dict: a function on its keys; d[k] = v and d.get(k, default)
EmptyDict == <<>>
Put(d, k, v) == [x \in (DOMAIN d) \cup {k} |-> IF x = k THEN v ELSE d[x]]
Get(d, k, default) == IF k \in DOMAIN d THEN d[k] ELSE default

Range(seq) == {seq[i] : i \in DOMAIN seq}

(***************************************************************************)
(* Characters, numbers and dates: str.lower, str.title, int(), format,     *)
(* and datetime(...).isocalendar() as CPython computes it.                 *)
(***************************************************************************)

DigitChars == "0123456789"
UpperChars == "ABCDEFGHIJKLMNOPQRSTUVWXYZ"
LowerChars == "abcdefghijklmnopqrstuvwxyz"

IndexIn(alphabet, c) == CHOOSE i \in 1..Len(alphabet) : SubSeq(alphabet, i, i) = c
CharAt(s, i) == IF i >= 1 /\ i <= Len(s) THEN SubSeq(s, i, i) ELSE ""

IsDigit(c) == Len(c) = 1 /\ Contains(DigitChars, c)
IsUpper(c) == Len(c) = 1 /\ Contains(UpperChars, c)
IsLower(c) == Len(c) = 1 /\ Contains(LowerChars, c)
IsLetter(c) == IsUpper(c) \/ IsLower(c)
\* c.isalnum(), on the ASCII characters the report labels are made of
IsAlnum(c) == IsLetter(c) \/ IsDigit(c)

LowerChar(c) == IF IsUpper(c) THEN CharAt(LowerChars, IndexIn(UpperChars, c)) ELSE c
UpperChar(c) == IF IsLower(c) THEN CharAt(UpperChars, IndexIn(LowerChars, c)) ELSE c

\* s.lower()
RECURSIVE Lower(_)
Lower(s) ==
    IF Len(s) <= 1 THEN LowerChar(s)
    ELSE Lower(SubSeq(s, 1, Len(s) \div 2)) \o Lower(SubSeq(s, Len(s) \div 2 + 1, Len(s)))

\* s.title() on a word of letters: the first in upper case, the rest in lower case
TitleWord(s) == IF s = "" THEN "" ELSE UpperChar(SubSeq(s, 1, 1)) \o Lower(SubSeq(s, 2, Len(s)))

\* int(s) for a string of digits
RECURSIVE StrToInt(_)
StrToInt(s) ==
    IF s = "" THEN 0
    ELSE 10 * StrToInt(SubSeq(s, 1, Len(s) - 1)) + (IndexIn(DigitChars, SubSeq(s, Len(s), Len(s))) - 1)

\* str(n) for n >= 0
RECURSIVE IntToStr(_)
IntToStr(n) ==
    IF n < 10 THEN CharAt(DigitChars, n + 1)
    ELSE IntToStr(n \div 10) \o CharAt(DigitChars, (n % 10) + 1)

\* f"{n:02d}"
Pad2(n) == IF n < 10 THEN "0" \o IntToStr(n) ELSE IntToStr(n)

IsLeap(y) == (y % 4 = 0) /\ ((y % 100 # 0) \/ (y % 400 = 0))

DaysInMonth(y, m) ==
    CASE m \in {1, 3, 5, 7, 8, 10, 12} -> 31
      [] m \in {4, 6, 9, 11} -> 30
      [] OTHER -> IF IsLeap(y) THEN 29 ELSE 28

\* datetime(y, m, d) raises ValueError unless this holds
ValidDate(y, m, d) ==
    /\ y >= 1 /\ y <= 9999
    /\ m >= 1 /\ m <= 12
    /\ d >= 1 /\ d <= DaysInMonth(y, m)

DaysBeforeYear(y) ==
    (y - 1) * 365 + ((y - 1) \div 4) - ((y - 1) \div 100) + ((y - 1) \div 400)

RECURSIVE DaysBeforeMonth(_, _)
DaysBeforeMonth(y, m) ==
    IF m = 1 THEN 0 ELSE DaysBeforeMonth(y, m - 1) + DaysInMonth(y, m - 1)

\* date.toordinal(): 1 for 0001-01-01
Ordinal(y, m, d) == DaysBeforeYear(y) + DaysBeforeMonth(y, m) + d

\* the ordinal of the Monday that starts ISO week 1 of year y
IsoWeek1Monday(y) ==
    LET firstday == Ordinal(y, 1, 1)
        firstweekday == (firstday + 6) % 7
        week1monday == firstday - firstweekday
    IN  IF firstweekday > 3 THEN week1monday + 7 ELSE week1monday

IsoCalendar_FromJan1(y, m, d) ==
    <<y, ((Ordinal(y, m, d) - Ordinal(y, 1, 1)) \div 7) + 1>>

\* date.isocalendar(): <<ISO year, ISO week>>
IsoCalendar(y, m, d) ==
    LET today == Ordinal(y, m, d)
        week == (today - IsoWeek1Monday(y)) \div 7
    IN  IF week < 0
        THEN <<y - 1, ((today - IsoWeek1Monday(y - 1)) \div 7) + 1>>
        ELSE IF week >= 52 /\ today >= IsoWeek1Monday(y + 1)
             THEN <<y + 1, 1>>
             ELSE <<y, week + 1>>

(***************************************************************************)
(* multiple.py: JGBFParser.get_template_columns                            *)
(***************************************************************************)

\* the local dict instruments, code -> name, in insertion order
instruments ==
    << <<"JGB10YEARFUTURES", "JGB(10-year) Futures">>,
       <<"MINI10YEARJGBFUTURESCASHSETTLED", "mini-10-year JGB Futures{Cash-Settled)">>,
       <<"MINI20YEARJGBFUTURES", "mini-20-year JGB Futures">>,
       <<"3MONTHTONAFUTURES", "3-Month TONA Futures">> >>

main_cats_NoTotal ==
    << <<"PROPRIETARY", "Proprietary">>, <<"BROKERAGE", "Brokerage">> >>

main_cats ==
    << <<"PROPRIETARY", "Proprietary">>, <<"BROKERAGE", "Brokerage">>,
       <<"TOTAL", "Total">> >>

breakdown_cats ==
    << <<"INSTITUTIONS", "Institutions">>, <<"INDIVIDUALS", "Individuals">>,
       <<"FOREIGNERS", "Foreigners">>, <<"SECURITIES_COS", "Securities Cos">> >>

subcat_list == <<"SALES", "PURCHASES">>
metric_list == <<"VALUE", "BALANCE">>

\* str.title() on the four words it is applied to
Title(w) ==
    CASE w = "SALES" -> "Sales"
      [] w = "PURCHASES" -> "Purchases"
      [] w = "VALUE" -> "Value"
      [] w = "BALANCE" -> "Balance"

\* the f-string of line 60
template_main_code(instr_code, cat_code, subcat, metric) ==
    "JGBF.TOTAL_PROPRIETARY_BROKERAGE." \o instr_code \o ".TRADINGVALUE."
        \o cat_code \o "." \o subcat \o "." \o metric \o ".W"

template_breakdown_code_NoMetric(instr_code, cat_code, subcat, metric) ==
    IF instr_code = "JGB10YEARFUTURES"
    THEN "JGBF.TRADINGBYTYPEOFINVESTORS." \o instr_code
            \o ".BREAKDOWNOFBROKERAGE.TRADINGVALUE."
            \o cat_code \o "." \o subcat \o ".W"
    ELSE "JGBF.TOTAL_PROPRIETARY_BROKERAGE." \o instr_code
            \o ".BREAKDOWNOFBROKERAGE.TRADINGVALUE."
            \o cat_code \o "." \o subcat \o ".W"

\* the f-strings of lines 69-72
template_breakdown_code(instr_code, cat_code, subcat, metric) ==
    IF instr_code = "JGB10YEARFUTURES"
    THEN "JGBF.TRADINGBYTYPEOFINVESTORS." \o instr_code
            \o ".BREAKDOWNOFBROKERAGE.TRADINGVALUE."
            \o cat_code \o "." \o subcat \o "." \o metric \o ".W"
    ELSE "JGBF.TOTAL_PROPRIETARY_BROKERAGE." \o instr_code
            \o ".BREAKDOWNOFBROKERAGE.TRADINGVALUE."
            \o cat_code \o "." \o subcat \o "." \o metric \o ".W"

MainDescription(instr_name, cat_name, subcat, metric) ==
    "Trading by Type of Investors, " \o instr_name
        \o ", Total, Proprietary & Brokerage, Trading Value, "
        \o cat_name \o ", " \o Title(subcat) \o ", " \o Title(metric)

BreakdownDescription(instr_name, cat_name, subcat, metric) ==
    "Trading by Type of Investors, " \o instr_name
        \o ", Breakdown of Brokerage, Trading Value, "
        \o cat_name \o ", " \o Title(subcat) \o ", " \o Title(metric)

\* the column appended by the body of the loops: lines 60-62 and 69-75
TemplateColumn(is_main, i, c, s, m) ==
    IF is_main
    THEN [code |-> template_main_code(i[1], c[1], s, m),
          description |-> MainDescription(i[2], c[2], s, m)]
    ELSE [code |-> template_breakdown_code(i[1], c[1], s, m),
          description |-> BreakdownDescription(i[2], c[2], s, m)]

\* the four nested for loops of lines 56-62 (over main_cats) and of lines 65-75
\* (over breakdown_cats): one column per (instrument, category, subcategory,
\* metric), the last loop running fastest
TemplateLoop(is_main, cats) ==
    LET nm == Len(metric_list)
        ns == Len(subcat_list)
        nc == Len(cats)
        ni == Len(instruments)
    IN  [k \in 1..(ni * nc * ns * nm) |->
            TemplateColumn(is_main,
                instruments[((k - 1) \div (nc * ns * nm)) + 1],
                cats[(((k - 1) \div (ns * nm)) % nc) + 1],
                subcat_list[(((k - 1) \div nm) % ns) + 1],
                metric_list[((k - 1) % nm) + 1])]

get_template_columns ==
    TemplateLoop(TRUE, main_cats) \o TemplateLoop(FALSE, breakdown_cats)

TemplateCodes == {get_template_columns[k].code : k \in DOMAIN get_template_columns}

(***************************************************************************)
(* multiple.py: JGBFParser.__init__, the label dictionaries in insertion   *)
(* order, and the row parser                                               *)
(***************************************************************************)

\* a cell value read from a worksheet: a str or None
Str(s) == [isNone |-> FALSE, s |-> s]
PyNone == [isNone |-> TRUE, s |-> ""]

\* str(x or "")
StrOrEmpty(x) == IF x.isNone THEN "" ELSE x.s

main_summary_categories ==
    << <<"<ji><ko><tori><hiki><kei>", "PROPRIETARY">>,
       <<"<i><taku><tori><hiki><kei>", "BROKERAGE">>,
       <<"<ji><ko><i><taku><gou><kei>", "TOTAL">> >>

brokerage_categories ==
    << <<"<hou><jin><kei>", "INSTITUTIONS">>,
       <<"<ko2><jin><kei>", "INDIVIDUALS">>,
       <<"<kai><gai><tou><shi><ka><kei>", "FOREIGNERS">>,
       <<"<shou><ken><kai2><sha>", "SECURITIES_COS">> >>

subcategories == << <<"<uru><ri>", "SALES">>, <<"<kau><i2>", "PURCHASES">> >>

GOKEI == "<gou><kei>"
TRIANGLE == "^"

Whitespace == {" ", "\t", "\n"}

RECURSIVE LStrip(_)
LStrip(s) ==
    IF s # "" /\ SubSeq(s, 1, 1) \in Whitespace THEN LStrip(SubSeq(s, 2, Len(s))) ELSE s

RECURSIVE RStrip(_)
RStrip(s) ==
    IF s # "" /\ SubSeq(s, Len(s), Len(s)) \in Whitespace
    THEN RStrip(SubSeq(s, 1, Len(s) - 1)) ELSE s

\* s.strip()
Strip(s) == RStrip(LStrip(s))

handle_negative_values_NoGlyph(value) ==
    IF value.isNone \/ value.s = "-" \/ value.s = "" THEN ""
    ELSE Strip(value.s)

handle_negative_values_Unsigned(value) ==
    IF value.isNone \/ value.s = "-" \/ value.s = "" THEN ""
    ELSE LET value_str == Strip(value.s)
         IN  IF StartsWith(value_str, TRIANGLE)
             THEN SubSeq(value_str, 2, Len(value_str))
             ELSE value_str

\* lines 108-111
handle_negative_values(value) ==
    IF value.isNone \/ value.s = "-" \/ value.s = "" THEN ""
    ELSE LET value_str == Strip(value.s)
         IN  IF StartsWith(value_str, TRIANGLE)
             THEN "-" \o SubSeq(value_str, 2, Len(value_str))
             ELSE value_str

FirstMatch_LastEntry(map, text) ==
    LET hits == {k \in DOMAIN map : Contains(text, map[k][1])}
    IN  IF hits = {} THEN ""
        ELSE map[CHOOSE k \in hits : \A j \in hits : k >= j][2]

\* next((en for jp, en in map.items() if jp in text), None); "" stands for None
FirstMatch(map, text) ==
    LET hits == {k \in DOMAIN map : Contains(text, map[k][1])}
    IN  IF hits = {} THEN ""
        ELSE map[CHOOSE k \in hits : \A j \in hits : k <= j][2]

series_code_NoSpecialCase(is_main, instrument_code, category, subcat, metric) ==
    IF is_main
    THEN "JGBF.TOTAL_PROPRIETARY_BROKERAGE." \o instrument_code \o ".TRADINGVALUE."
            \o category \o "." \o subcat \o "." \o metric \o ".W"
    ELSE "JGBF.TOTAL_PROPRIETARY_BROKERAGE." \o instrument_code
            \o ".BREAKDOWNOFBROKERAGE.TRADINGVALUE."
            \o category \o "." \o subcat \o "." \o metric \o ".W"

\* lines 142-149
series_code(is_main, instrument_code, category, subcat, metric) ==
    IF is_main
    THEN "JGBF.TOTAL_PROPRIETARY_BROKERAGE." \o instrument_code \o ".TRADINGVALUE."
            \o category \o "." \o subcat \o "." \o metric \o ".W"
    ELSE IF instrument_code = "JGB10YEARFUTURES"
         THEN "JGBF.TRADINGBYTYPEOFINVESTORS." \o instrument_code
                \o ".BREAKDOWNOFBROKERAGE.TRADINGVALUE."
                \o category \o "." \o subcat \o "." \o metric \o ".W"
         ELSE "JGBF.TOTAL_PROPRIETARY_BROKERAGE." \o instrument_code
                \o ".BREAKDOWNOFBROKERAGE.TRADINGVALUE."
                \o category \o "." \o subcat \o "." \o metric \o ".W"

RowData_Swapped(is_main, instrument_code, date_code, category, subcat, val, bal) ==
    LET emit(metric, data_val) ==
            LET processed_value == handle_negative_values(data_val)
                code == series_code(is_main, instrument_code, category, subcat, metric)
            IN  IF processed_value # "" /\ code # ""
                THEN << [code |-> code, date |-> date_code, value |-> processed_value] >>
                ELSE <<>>
    IN  emit("VALUE", bal) \o emit("BALANCE", val)

\* lines 139-152: the data of one row that passed the checks
RowData(is_main, instrument_code, date_code, category, subcat, val, bal) ==
    LET emit(metric, data_val) ==
            LET processed_value == handle_negative_values(data_val)
                code == series_code(is_main, instrument_code, category, subcat, metric)
            IN  IF processed_value # "" /\ code # ""
                THEN << [code |-> code, date |-> date_code, value |-> processed_value] >>
                ELSE <<>>
    IN  emit("VALUE", val) \o emit("BALANCE", bal)

ParseRow_PadShort(row, is_main, instrument_code, date_code) ==
    LET padded == [k \in 1..8 |-> IF k <= Len(row) THEN row[k] ELSE PyNone]
        category_map == IF is_main THEN main_summary_categories ELSE brokerage_categories
    IN  IF StrOrEmpty(padded[1]) = "" \/ StrOrEmpty(padded[2]) = ""
           \/ Contains(StrOrEmpty(padded[2]), GOKEI)
        THEN <<>>
        ELSE IF FirstMatch(category_map, StrOrEmpty(padded[1])) = ""
                \/ FirstMatch(subcategories, StrOrEmpty(padded[2])) = ""
        THEN <<>>
        ELSE RowData(is_main, instrument_code, date_code,
                     FirstMatch(category_map, StrOrEmpty(padded[1])),
                     FirstMatch(subcategories, StrOrEmpty(padded[2])),
                     padded[6], padded[8])

ParseRow_KeepTotals(row, is_main, instrument_code, date_code) ==
    LET category_map == IF is_main THEN main_summary_categories ELSE brokerage_categories
    IN  IF Len(row) < 8 THEN <<>>
        ELSE IF StrOrEmpty(row[1]) = "" \/ StrOrEmpty(row[2]) = "" THEN <<>>
        ELSE IF FirstMatch(category_map, StrOrEmpty(row[1])) = ""
                \/ FirstMatch(subcategories, StrOrEmpty(row[2])) = ""
        THEN <<>>
        ELSE RowData(is_main, instrument_code, date_code,
                     FirstMatch(category_map, StrOrEmpty(row[1])),
                     FirstMatch(subcategories, StrOrEmpty(row[2])), row[6], row[8])

\* lines 130-152: one iteration of the loop over the rows
ParseRow(row, is_main, instrument_code, date_code) ==
    IF Len(row) < 8 THEN <<>>
    ELSE LET cat_full == StrOrEmpty(row[1])
             subcat_raw == StrOrEmpty(row[2])
             val == row[6]
             bal == row[8]
             category_map == IF is_main THEN main_summary_categories
                                        ELSE brokerage_categories
         IN  IF cat_full = "" \/ subcat_raw = "" \/ Contains(subcat_raw, GOKEI)
             THEN <<>>
             ELSE LET category == FirstMatch(category_map, cat_full)
                      subcat == FirstMatch(subcategories, subcat_raw)
                  IN  IF category = "" \/ subcat = "" THEN <<>>
                      ELSE RowData(is_main, instrument_code, date_code,
                                   category, subcat, val, bal)

RECURSIVE ParseRows(_, _, _, _)
ParseRows(data_rows, is_main, instrument_code, date_code) ==
    IF data_rows = <<>> THEN <<>>
    ELSE ParseRow(Head(data_rows), is_main, instrument_code, date_code)
            \o ParseRows(Tail(data_rows), is_main, instrument_code, date_code)

\* lines 125-153
parse_table(sheet_data, instrument_code, date_code, table_type) ==
    ParseRows(sheet_data.data_rows, table_type = "main_summary",
              instrument_code, date_code)

(***************************************************************************)
(* multiple.py: JGBFParser.extract_date_from_filename.  Each regular       *)
(* expression is matched as re.search does: at the leftmost position       *)
(* where it matches, quantifiers greedy.                                   *)
(***************************************************************************)

RECURSIVE DigitRun(_, _, _)
\* how many of the at most maxn characters of s from i on are digits, in a row
DigitRun(s, i, maxn) ==
    IF maxn = 0 \/ ~IsDigit(CharAt(s, i)) THEN 0 ELSE 1 + DigitRun(s, i + 1, maxn - 1)

AllDigits(s, i, n) == \A k \in 0..(n - 1) : IsDigit(CharAt(s, i + k))
AllLetters(s, i, n) == \A k \in 0..(n - 1) : IsLetter(CharAt(s, i + k))

\* the literal lit at position i, case ignored (re.IGNORECASE)
LitCI(s, i, lit) ==
    /\ i >= 1 /\ i + Len(lit) - 1 <= Len(s)
    /\ Lower(SubSeq(s, i, i + Len(lit) - 1)) = Lower(lit)

NoMatch == [ok |-> FALSE, g |-> <<>>]
Leftmost(P) == CHOOSE i \in P : \A j \in P : i <= j

\* r"_(\d{4})_Week\d_(\d{1,2})-(\d{1,2})": groups year, month, day
Match1At(s, i) ==
    /\ CharAt(s, i) = "_" /\ AllDigits(s, i + 1, 4) /\ LitCI(s, i + 5, "_Week")
    /\ IsDigit(CharAt(s, i + 10)) /\ CharAt(s, i + 11) = "_"
    /\ LET n == DigitRun(s, i + 12, 2)
       IN  n >= 1 /\ CharAt(s, i + 12 + n) = "-" /\ IsDigit(CharAt(s, i + 13 + n))

match1(s) ==
    LET P == {i \in 1..Len(s) : Match1At(s, i)}
    IN  IF P = {} THEN NoMatch
        ELSE LET i == Leftmost(P)
                 n == DigitRun(s, i + 12, 2)
                 dn == DigitRun(s, i + 13 + n, 2)
             IN  [ok |-> TRUE,
                  g |-> << SubSeq(s, i + 1, i + 4), SubSeq(s, i + 12, i + 11 + n),
                           SubSeq(s, i + 13 + n, i + 12 + n + dn) >>]

\* r"([A-Za-z]{3})_(\d{4})_Week\d_(\d{1,2})-\d{1,2}": groups month_name, year,
\* and the number that follows "Week\d_"
Match2At(s, i) ==
    /\ AllLetters(s, i, 3) /\ CharAt(s, i + 3) = "_" /\ AllDigits(s, i + 4, 4)
    /\ LitCI(s, i + 8, "_Week") /\ IsDigit(CharAt(s, i + 13)) /\ CharAt(s, i + 14) = "_"
    /\ LET n == DigitRun(s, i + 15, 2)
       IN  n >= 1 /\ CharAt(s, i + 15 + n) = "-" /\ IsDigit(CharAt(s, i + 16 + n))

match2(s) ==
    LET P == {i \in 1..Len(s) : Match2At(s, i)}
    IN  IF P = {} THEN NoMatch
        ELSE LET i == Leftmost(P)
                 n == DigitRun(s, i + 15, 2)
             IN  [ok |-> TRUE,
                  g |-> << SubSeq(s, i, i + 2), SubSeq(s, i + 4, i + 7),
                           SubSeq(s, i + 15, i + 14 + n) >>]

\* r"_([A-Za-z]{3})\.?_(\d{1,2})_(\d{4})_-_": groups month_name, day, year
Match3At(s, i) ==
    /\ CharAt(s, i) = "_" /\ AllLetters(s, i + 1, 3)
    /\ LET p == IF CharAt(s, i + 4) = "." THEN 1 ELSE 0
           n == DigitRun(s, i + 5 + p, 2)
       IN  /\ CharAt(s, i + 4 + p) = "_"
           /\ n >= 1 /\ CharAt(s, i + 5 + p + n) = "_"
           /\ AllDigits(s, i + 6 + p + n, 4)
           /\ LitCI(s, i + 10 + p + n, "_-_")

match3(s) ==
    LET P == {i \in 1..Len(s) : Match3At(s, i)}
    IN  IF P = {} THEN NoMatch
        ELSE LET i == Leftmost(P)
                 p == IF CharAt(s, i + 4) = "." THEN 1 ELSE 0
                 n == DigitRun(s, i + 5 + p, 2)
             IN  [ok |-> TRUE,
                  g |-> << SubSeq(s, i + 1, i + 3), SubSeq(s, i + 5 + p, i + 4 + p + n),
                           SubSeq(s, i + 6 + p + n, i + 9 + p + n) >>]

\* self.month_map
month_names ==
    <<"Jan", "Feb", "Mar", "Apr", "May", "Jun", "Jul", "Aug", "Sep", "Oct", "Nov", "Dec">>

\* self.month_map.get(name): 0 stands for None
month_map_get(name) ==
    IF \E k \in DOMAIN month_names : month_names[k] = name
    THEN CHOOSE k \in DOMAIN month_names : month_names[k] = name
    ELSE 0

\* f"{iso_year}-{iso_week:02d}" of datetime(y, m, d).isocalendar()
WeekKey(y, m, d) ==
    LET iso == IsoCalendar(y, m, d) IN IntToStr(iso[1]) \o "-" \o Pad2(iso[2])

\* the try block of each branch: the week key of datetime(y, m, d), "" when
\* datetime raises ValueError and the except clause passes
DateKey[y \in Int, m \in Int, d \in Int] ==
    IF ValidDate(y, m, d) THEN WeekKey(y, m, d) ELSE ""

\* lines 89-93: "" when the branch does not return
date_branch1(filename) ==
    LET m1 == match1(filename)
    IN  IF ~m1.ok THEN ""
        ELSE DateKey[StrToInt(m1.g[1]), StrToInt(m1.g[2]), StrToInt(m1.g[3])]

\* lines 94-99; "if month" fails for None, which 0 stands for
date_branch2(filename) ==
    LET m2 == match2(filename)
    IN  IF ~m2.ok THEN ""
        ELSE IF month_map_get(TitleWord(m2.g[1])) = 0 THEN ""
        ELSE DateKey[StrToInt(m2.g[2]), month_map_get(TitleWord(m2.g[1])), StrToInt(m2.g[3])]

\* lines 100-105
date_branch3(filename) ==
    LET m3 == match3(filename)
    IN  IF ~m3.ok THEN ""
        ELSE IF month_map_get(TitleWord(m3.g[1])) = 0 THEN ""
        ELSE DateKey[StrToInt(m3.g[3]), month_map_get(TitleWord(m3.g[1])), StrToInt(m3.g[2])]

extract_date_from_filename_FirstMatch(filename) ==
    LET key == IF match1(filename).ok THEN date_branch1(filename)
               ELSE IF match2(filename).ok THEN date_branch2(filename)
               ELSE date_branch3(filename)
    IN  IF key # "" THEN key ELSE "UNKNOWN_DATE"

\* lines 88-106
extract_date_from_filename(filename) ==
    IF date_branch1(filename) # "" THEN date_branch1(filename)
    ELSE IF date_branch2(filename) # "" THEN date_branch2(filename)
    ELSE IF date_branch3(filename) # "" THEN date_branch3(filename)
    ELSE "UNKNOWN_DATE"

(***************************************************************************)
(* Scrape.py: parse_report_date and JPXCompleteScraper.generate_filename   *)
(***************************************************************************)

RECURSIVE WsRun(_, _)
\* how many whitespace characters s has in a row from i on
WsRun(s, i) == IF CharAt(s, i) \in Whitespace THEN 1 + WsRun(s, i + 1) ELSE 0

\* ".*?Week" from position k on: where the first "Week" followed (after skip
\* optional whitespace characters, at most maxskip) by a digit starts; 0 if none
WeekAt(s, k, maxskip) ==
    LET ok(j) == /\ LitCI(s, j, "Week")
                 /\ \E w \in 0..maxskip :
                        /\ w <= WsRun(s, j + 4)
                        /\ IsDigit(CharAt(s, j + 4 + w))
                 /\ \A x \in k..(j - 1) : CharAt(s, x) # "\n"
        P == {j \in k..Len(s) : ok(j)}
    IN  IF P = {} THEN 0 ELSE Leftmost(P)

\* r"([A-Za-z]{3})\.?\s+(\d{4}).*?Week(\d+)"
Report1At(s, i) ==
    /\ AllLetters(s, i, 3)
    /\ LET p == IF CharAt(s, i + 3) = "." THEN 1 ELSE 0
           w == WsRun(s, i + 3 + p)
       IN  /\ w >= 1 /\ AllDigits(s, i + 3 + p + w, 4)
           /\ WeekAt(s, i + 7 + p + w, 0) # 0

\* r"([A-Za-z]{3})\.?\s+\d{1,2},?\s+(\d{4}).*?Week\s?(\d+)"
Report2At(s, i) ==
    /\ AllLetters(s, i, 3)
    /\ LET p == IF CharAt(s, i + 3) = "." THEN 1 ELSE 0
           w == WsRun(s, i + 3 + p)
           n == DigitRun(s, i + 3 + p + w, 2)
           c == IF CharAt(s, i + 3 + p + w + n) = "," THEN 1 ELSE 0
           v == WsRun(s, i + 3 + p + w + n + c)
       IN  /\ w >= 1 /\ n >= 1 /\ v >= 1
           /\ AllDigits(s, i + 3 + p + w + n + c + v, 4)
           /\ WeekAt(s, i + 7 + p + w + n + c + v, 1) # 0

NoReport == [ok |-> FALSE, year |-> 0, month |-> "", week |-> 0]

\* lines 50-77
parse_report_date(date_text) ==
    LET P1 == {i \in 1..Len(date_text) : Report1At(date_text, i)}
        P2 == {i \in 1..Len(date_text) : Report2At(date_text, i)}
    IN  IF P1 # {}
        THEN LET i == Leftmost(P1)
                 p == IF CharAt(date_text, i + 3) = "." THEN 1 ELSE 0
                 w == WsRun(date_text, i + 3 + p)
                 y == i + 3 + p + w
                 j == WeekAt(date_text, y + 4, 0)
             IN  [ok |-> TRUE,
                  year |-> StrToInt(SubSeq(date_text, y, y + 3)),
                  month |-> SubSeq(date_text, i, i + 2),
                  week |-> StrToInt(SubSeq(date_text, j + 4,
                              j + 3 + DigitRun(date_text, j + 4, Len(date_text))))]
        ELSE IF P2 # {}
        THEN LET i == Leftmost(P2)
                 p == IF CharAt(date_text, i + 3) = "." THEN 1 ELSE 0
                 w == WsRun(date_text, i + 3 + p)
                 n == DigitRun(date_text, i + 3 + p + w, 2)
                 c == IF CharAt(date_text, i + 3 + p + w + n) = "," THEN 1 ELSE 0
                 v == WsRun(date_text, i + 3 + p + w + n + c)
                 y == i + 3 + p + w + n + c + v
                 j == WeekAt(date_text, y + 4, 1)
                 k == IF IsDigit(CharAt(date_text, j + 4)) THEN j + 4 ELSE j + 5
             IN  [ok |-> TRUE,
                  year |-> StrToInt(SubSeq(date_text, y, y + 3)),
                  month |-> SubSeq(date_text, i, i + 2),
                  week |-> StrToInt(SubSeq(date_text, k,
                              k - 1 + DigitRun(date_text, k, Len(date_text))))]
        ELSE NoReport

\* "".join(c for c in s if c.isalnum() or c in "._-")
RECURSIVE KeepFilenameChars(_)
KeepFilenameChars(s) ==
    IF s = "" THEN ""
    ELSE LET c == SubSeq(s, 1, 1)
             rest == KeepFilenameChars(SubSeq(s, 2, Len(s)))
         IN  IF IsAlnum(c) \/ c \in {".", "_", "-"} THEN c \o rest ELSE rest

generate_filename_KeepSlash(date_text, file_type) ==
    KeepFilenameChars(
        Replace(Replace(Replace(Replace(date_text, "{", "_"), "}", ""), " ", "_"), ",", ""))
        \o "." \o file_type

\* lines 185-187
generate_filename(date_text, file_type) ==
    LET clean_date ==
            Replace(Replace(Replace(Replace(Replace(date_text,
                "{", "_"), "}", ""), "/", "-"), " ", "_"), ",", "")
    IN  KeepFilenameChars(clean_date) \o "." \o file_type

\* Path(name).stem: the name without its last suffix
Stem(name) ==
    LET dots == {i \in 2..Len(name) : CharAt(name, i) = "."}
    IN  IF dots = {} \/ CharAt(name, Len(name)) = "." THEN name
        ELSE SubSeq(name, 1, (CHOOSE i \in dots : \A j \in dots : j <= i) - 1)

(***************************************************************************)
(* multiple.py: extract_instrument_from_subtitle, read_excel_sheet and     *)
(* process_single_file                                                     *)
(***************************************************************************)

CHOKI == "<chou><ki><koku><sai><saki><mono>"
CHOCHOKI == "<chou2><chou><ki><koku><sai><saki><mono>"
MINI_KANA == "<mi><ni>"

extract_instrument_from_subtitle_MiniFirst(subtitle) ==
    LET subtitle_clean == Replace(Replace(Replace(subtitle, "{", "("), "}", ")"), ";", ",")
    IN  IF Contains(Lower(subtitle_clean), "mini") THEN "MINI10YEARJGBFUTURESCASHSETTLED"
        ELSE IF Contains(subtitle_clean, "TONA") THEN "3MONTHTONAFUTURES"
        ELSE IF Contains(subtitle_clean, "JGB(10-year)") \/ Contains(subtitle_clean, CHOKI)
             THEN "JGB10YEARFUTURES"
        ELSE ""

\* lines 80-86; "" stands for None
extract_instrument_from_subtitle(subtitle) ==
    LET subtitle_clean == Replace(Replace(Replace(subtitle, "{", "("), "}", ")"), ";", ",")
    IN  IF Contains(Lower(subtitle_clean), "mini-20-year") \/ Contains(subtitle_clean, CHOCHOKI)
        THEN "MINI20YEARJGBFUTURES"
        ELSE IF Contains(subtitle_clean, "3-Month TONA") \/ Contains(subtitle_clean, "TONA")
        THEN "3MONTHTONAFUTURES"
        ELSE IF Contains(subtitle_clean, "JGB(10-year)") \/ Contains(subtitle_clean, CHOKI)
        THEN IF Contains(Lower(subtitle_clean), "mini") \/ Contains(subtitle_clean, MINI_KANA)
             THEN "MINI10YEARJGBFUTURESCASHSETTLED"
             ELSE "JGB10YEARFUTURES"
        ELSE ""

\* "if row and row[0]": the row is not empty and its first cell is not None or ""
RowKept(row) == row # <<>> /\ ~row[1].isNone /\ row[1].s # ""

RECURSIVE KeptRows(_)
KeptRows(rows) ==
    IF rows = <<>> THEN <<>>
    ELSE IF RowKept(Head(rows)) THEN <<Head(rows)>> \o KeptRows(Tail(rows))
         ELSE KeptRows(Tail(rows))

\* lines 113-120, for a sheet of the workbook: sh.a2 is the value of cell A2,
\* sh.rows are the rows from row 6 on
read_excel_sheet(sh) ==
    [subtitle |-> Replace(StrOrEmpty(sh.a2), "Subtitle: ", ""),
     data_rows |-> KeptRows(sh.rows)]

\* line 166; "" stands for None
table_type_of(sheet_name) ==
    IF Contains(sheet_name, "Table1_Main_Summary") THEN "main_summary"
    ELSE IF Contains(sheet_name, "Table2_Brokerage_Bre") THEN "brokerage_breakdown"
    ELSE ""

\* lines 166-176: one iteration of the loop over the sheets; what it adds to
\* file_results
ProcessSheet(sh, date_code) ==
    LET table_type == table_type_of(sh.name)
        sheet_data == read_excel_sheet(sh)
        instrument_code == extract_instrument_from_subtitle(sheet_data.subtitle)
    IN  IF table_type = "" THEN <<>>
        ELSE IF instrument_code = "" THEN <<>>
        ELSE parse_table(sheet_data, instrument_code, date_code, table_type)

RECURSIVE ProcessSheets(_, _)
ProcessSheets(sheets, date_code) ==
    IF sheets = <<>> THEN <<>>
    ELSE ProcessSheet(Head(sheets), date_code) \o ProcessSheets(Tail(sheets), date_code)

process_single_file_NoSkip(file) ==
    IF ~file.readable THEN <<>>
    ELSE ProcessSheets(file.sheets, extract_date_from_filename(file.stem))

\* lines 155-178, for a workbook file.stem with the sheets file.sheets; a
\* workbook that load_workbook cannot open raises before the loop, and the
\* handler of line 177 leaves file_results empty
process_single_file(file) ==
    LET date_code == extract_date_from_filename(file.stem)
    IN  IF date_code = "UNKNOWN_DATE" THEN <<>>
        ELSE IF ~file.readable THEN <<>>
        ELSE ProcessSheets(file.sheets, date_code)

(***************************************************************************)
(* multiple.py: JGBFParser.generate_output_file                            *)
(***************************************************************************)

None == [none |-> TRUE]
UNKNOWN_DATE == "UNKNOWN_DATE"

\* a pivot that keeps the first value of a (code, date)
RECURSIVE PivotLoop_FirstWins(_, _)
PivotLoop_FirstWins(data, n) ==
    IF n = 0 THEN EmptyDict
    ELSE LET prev == PivotLoop_FirstWins(data, n - 1)
             item == data[n]
             inner == Get(prev, item.code, EmptyDict)
         IN  Put(prev, item.code,
                 IF item.date \in DOMAIN inner THEN inner
                 ELSE Put(inner, item.date, item.value))

\* lines 185-187: data_pivot.setdefault(code, {})[date] = value, item by item
RECURSIVE PivotLoop(_, _)
PivotLoop(data, n) ==
    IF n = 0 THEN EmptyDict
    ELSE LET prev == PivotLoop(data, n - 1)
             item == data[n]
         IN  Put(prev, item.code,
                 Put(Get(prev, item.code, EmptyDict), item.date, item.value))

data_pivot(data) == PivotLoop(data, Len(data))

\* the dates in the order of their first occurrence, unsorted
RECURSIVE FirstOccurrences(_, _)
FirstOccurrences(data, n) ==
    IF n = 0 THEN <<>>
    ELSE LET prev == FirstOccurrences(data, n - 1)
         IN  IF data[n].date = UNKNOWN_DATE \/ data[n].date \in Range(prev)
             THEN prev ELSE Append(prev, data[n].date)

all_dates_Unsorted(data) == FirstOccurrences(data, Len(data))

all_dates_WithUnknown(data) == Sorted({data[i].date : i \in DOMAIN data})

\* line 189
all_dates(data) ==
    Sorted({d \in {data[i].date : i \in DOMAIN data} : d # UNKNOWN_DATE})

\* lines 200-210: the worksheet as its rows; rows 1 and 2 are the headers,
\* column 1 is the date
Worksheet(data) ==
    LET pivot == data_pivot(data)
        dates == all_dates(data)
        template_columns == get_template_columns
    IN  << <<"Date">> \o [c \in DOMAIN template_columns |-> template_columns[c].code],
           <<"Description">>
               \o [c \in DOMAIN template_columns |-> template_columns[c].description] >>
        \o [r \in DOMAIN dates |->
               <<dates[r]>> \o [c \in DOMAIN template_columns |->
                   Get(Get(pivot, template_columns[c].code, EmptyDict), dates[r], "")]]

OutputFile_HeaderOnly(data) ==
    IF data = <<>> THEN None
    ELSE [none |-> FALSE, rows |-> Worksheet(data)]

\* lines 180-214: what the call saves, None when it returns early
OutputFile(data) ==
    IF data = <<>> THEN None
    ELSE IF all_dates(data) = <<>> THEN None
    ELSE [none |-> FALSE, rows |-> Worksheet(data)]

generate_output_file ==
    /\ pivot_pc = "ready"
    /\ workbook' = OutputFile(all_data)
    /\ pivot_pc' = IF workbook' = None THEN "skipped" ELSE "saved"
    /\ UNCHANGED <<all_data, dateVars, sheetVars, folderVars, convVars, orchVars, scrapeVars>>

(***************************************************************************)
(* The consolidation step alone: any list of at most MaxData data.         *)
(***************************************************************************)

MaxData == 3

\* one main-summary code, one breakdown code, one code outside the template
CodeT1 == template_main_code("JGB10YEARFUTURES", "PROPRIETARY", "SALES", "VALUE")
CodeT2 == template_breakdown_code("MINI20YEARJGBFUTURES", "FOREIGNERS", "PURCHASES", "BALANCE")
CodeX == "JGBF.TOTAL_PROPRIETARY_BROKERAGE.JGB10YEARFUTURES.TRADINGVALUE.OTHER.SALES.VALUE.W"

Datum(c, d, v) == [code |-> c, date |-> d, value |-> v]

PivotData ==
    { Datum(CodeT1, "2023-50", "100"), Datum(CodeT1, "2023-50", "-50"),
      Datum(CodeT1, "2023-49", "100"), Datum(CodeT2, "2023-49", "-50"),
      Datum(CodeT2, "2023-49", "0"),   Datum(CodeT2, "2024-02", "100"),
      Datum(CodeX, "2023-49", "100"),  Datum(CodeT1, UNKNOWN_DATE, "100") }

SheetIdle ==
    /\ sheet = [name |-> "", a2 |-> PyNone, rows |-> <<>>]
    /\ sheet_date = "" /\ sheet_results = <<>> /\ sheet_pc = "idle"

FolderIdle ==
    /\ excel_files = <<>> /\ file_idx = 0 /\ master_data_list = <<>>
    /\ data_from_one_file = <<>> /\ folders_pc = "idle"

ConvIdle ==
    /\ pdf_files = <<>> /\ all_page_jobs = <<>> /\ pending = {} /\ page_results = <<>>
    /\ docx_folder = EmptyDict /\ excel_output = EmptyDict /\ convert_pc = "idle"

DateIdle ==
    /\ report_label = "" /\ pdf_filename = "" /\ xlsx_stem = ""
    /\ week_key = "" /\ date_pc = "idle"

Running == -1

OrchIdle ==
    /\ scraper_output_dir = None /\ folder_idx = 0 /\ excel_output_folders = <<>>
    /\ printed = {} /\ exit_status = Running /\ orch_pc = "idle"

NoConfig == [mode |-> "full", year |-> "", month |-> "", week |-> ""]

ScrapeIdle ==
    /\ config = NoConfig /\ dropdown = <<>> /\ archive_pages = <<>> /\ storage = {}
    /\ archive_urls = <<>> /\ urls_to_visit = <<>> /\ page_idx = 0
    /\ scraper_all_data = <<>> /\ failed_downloads = <<>> /\ scrape_log = <<>>
    /\ scrape_pc = "idle"

PivotInit ==
    /\ DateIdle /\ SheetIdle /\ FolderIdle /\ ConvIdle /\ OrchIdle /\ ScrapeIdle
    /\ all_data \in UNION {[1..n -> PivotData] : n \in 0..MaxData}
    /\ workbook = None
    /\ pivot_pc = "ready"

PivotNext == generate_output_file

SpecPivot == PivotInit /\ [][PivotNext]_vars

(***************************************************************************)
(* A report label on its way through the pipeline: the scraper names the   *)
(* PDF after the label, the converter names the workbook after the PDF,    *)
(* and the parser derives the week key from the workbook's name.           *)
(***************************************************************************)

\* Scrape.py lines 170-179: one row of the archive table, full mode
scrape_row ==
    /\ date_pc = "label"
    /\ IF parse_report_date(report_label).ok
       THEN /\ pdf_filename' = generate_filename(report_label, "pdf")
            /\ date_pc' = "stored"
       ELSE /\ pdf_filename' = pdf_filename
            /\ date_pc' = "ignored"
    /\ UNCHANGED <<report_label, xlsx_stem, week_key, pivotVars, sheetVars, folderVars, convVars, orchVars, scrapeVars>>

\* new2.py lines 206, 244 and 301: pdf_name = pdf_file.stem names the workbook
convert_pdf ==
    /\ date_pc = "stored"
    /\ xlsx_stem' = Stem(Stem(pdf_filename) \o ".xlsx")
    /\ date_pc' = "converted"
    /\ UNCHANGED <<report_label, pdf_filename, week_key, pivotVars, sheetVars, folderVars, convVars, orchVars, scrapeVars>>

\* multiple.py line 157
extract_date ==
    /\ date_pc = "converted"
    /\ week_key' = extract_date_from_filename(xlsx_stem)
    /\ date_pc' = "parsed"
    /\ UNCHANGED <<report_label, pdf_filename, xlsx_stem, pivotVars, sheetVars, folderVars, convVars, orchVars, scrapeVars>>

\* "<Mon> <YYYY>, Week<N>{<M>/<D> - <M>/<D+4>}"
WeekLabel(mon, yyyy, n, m, d) ==
    mon \o " " \o IntToStr(yyyy) \o ", Week" \o IntToStr(n) \o "{"
        \o IntToStr(m) \o "/" \o IntToStr(d) \o " - "
        \o IntToStr(m) \o "/" \o IntToStr(d + 4) \o "}"

LabelMonths == {1, 2, 7, 12}
LabelYears == {2021, 2023, 2024, 2025}
LabelDays == {1, 4, 7, 25, 29, 30}

LabelParts == LabelMonths \X LabelYears \X (1..2) \X LabelDays

LabelOf(t) == WeekLabel(month_names[t[1]], t[2], t[3], t[1], t[4])

OtherLabels == {"Dec. 8, 2023 (Week 2)", "Weekly report", ""}

ReportLabels == {LabelOf(t) : t \in LabelParts} \cup OtherLabels

PivotIdle == all_data = <<>> /\ workbook = None /\ pivot_pc = "idle"

DateInit ==
    /\ PivotIdle /\ SheetIdle /\ FolderIdle /\ ConvIdle /\ OrchIdle /\ ScrapeIdle
    /\ report_label \in ReportLabels
    /\ pdf_filename = "" /\ xlsx_stem = "" /\ week_key = ""
    /\ date_pc = "label"

DateNext == scrape_row \/ convert_pdf \/ extract_date

SpecDate == DateInit /\ [][DateNext]_vars

(***************************************************************************)
(* Specification SpecSheet: one worksheet of a converted workbook goes     *)
(* through the body of the loop of process_single_file.                    *)
(***************************************************************************)

process_sheet ==
    /\ sheet_pc = "ready"
    /\ sheet_results' = ProcessSheet(sheet, sheet_date)
    /\ sheet_pc' = "done"
    /\ UNCHANGED <<sheet, sheet_date, pivotVars, dateVars, folderVars, convVars, orchVars, scrapeVars>>

\* sheet names as convert_docx_to_excel writes them: P<page>_<table_names[k][:20]>
SheetNames == {"P1_Table1_Main_Summary", "P1_Table2_Brokerage_Bre", "P1_Table3_Institutions_"}

GENKIN_MINI == CHOKI \o "{<gen><kin><kes><sai2><gata>" \o MINI_KANA \o "}"

Subtitles ==
    { "JGB(10-year) Futures", "mini-10-year JGB Futures (Cash-Settled)",
      "mini-20-year JGB Futures", "3-Month TONA Futures", GENKIN_MINI,
      CHOCHOKI \o " mini-20-year JGB Futures", CHOKI \o " JGB{10-year} Futures",
      "Nikkei 225 Futures" }

A2Cells == {Str("Subtitle: " \o t) : t \in Subtitles} \cup {PyNone}

CategoryLabels ==
    {main_summary_categories[k][1] : k \in DOMAIN main_summary_categories}
    \cup {brokerage_categories[k][1] : k \in DOMAIN brokerage_categories}

CategoryCells ==
    {Str(l) : l \in CategoryLabels}
    \cup { Str("<ji><ko><tori><hiki><kei> Proprietary"),
           Str("<i><taku><tori><hiki><kei>/<ji><ko><tori><hiki><kei>"),
           Str("<kei>"), PyNone }

SubcatCells ==
    { Str("<uru><ri>"), Str("<kau><i2>"), Str("<kau><i2>/<uru><ri>"), Str("<uru><ri>" \o GOKEI),
      Str("<sa><shi><hiki><ki>"), PyNone }

ValueCells == {Str("100"), Str("^50"), Str("-"), Str(" - "), Str("1,234"), PyNone}
BalanceCells == {Str("^50"), Str("0"), Str(""), Str("^ 7")}

Row8(cat, sub, val, bal) == <<cat, sub, PyNone, PyNone, PyNone, val, PyNone, bal>>

DataRows ==
    {Row8(c, sc, v, b) : c \in CategoryCells, sc \in SubcatCells,
                          v \in ValueCells, b \in BalanceCells}

\* rows for the sheets of more than one row: short and long rows, a row whose
\* first cell is empty, rows of both tables
RowPS == Row8(Str("<ji><ko><tori><hiki><kei>"), Str("<uru><ri>"), Str("100"), Str("^50"))
RowFP == Row8(Str("<kai><gai><tou><shi><ka><kei>"), Str("<kau><i2>"), Str("200"), Str("-"))

\* a value with the negative glyph and a separator, a balance that is a dash
RowNeg == Row8(Str("<ji><ko><tori><hiki><kei>"), Str("<uru><ri>"), Str("^1,234"), Str("-"))

\* a breakdown row whose cells hold two labels each, the later entry first
RowTwoLabels ==
    Row8(Str("<ko2><jin><kei>/<hou><jin><kei>"), Str("<kau><i2>/<uru><ri>"), Str("100"), Str("^50"))

MixedRows ==
    { RowPS, RowFP, RowNeg, RowTwoLabels,
      Row8(Str(""), Str("<uru><ri>"), Str("100"), Str("^50")),
      SubSeq(RowPS, 1, 7),
      SubSeq(RowPS, 1, 5),
      RowPS \o <<Str("9")>>,
      <<>> }

MaxRows == 2

SheetRows ==
    {<<r>> : r \in DataRows} \cup UNION {[1..n -> MixedRows] : n \in 0..MaxRows}

SheetDates == {"2023-49"}

SheetInit ==
    /\ PivotIdle /\ DateIdle /\ FolderIdle /\ ConvIdle /\ OrchIdle /\ ScrapeIdle
    /\ sheet \in [name : SheetNames, a2 : A2Cells, rows : SheetRows]
    /\ sheet_date \in SheetDates
    /\ sheet_results = <<>>
    /\ sheet_pc = "ready"

SheetNext == process_sheet

SpecSheet == SheetInit /\ [][SheetNext]_vars

(***************************************************************************)
(* Specification SpecFolders: process_folders over the workbooks found in  *)
(* the selected folders.                                                   *)
(***************************************************************************)

\* lines 227-233: no workbook found ends the call
process_folders_begin ==
    /\ folders_pc = "start"
    /\ folders_pc' = IF excel_files = <<>> THEN "no_files" ELSE "files"
    /\ master_data_list' = <<>>
    /\ UNCHANGED <<excel_files, file_idx, data_from_one_file, pivotVars, dateVars, sheetVars,
                   convVars, orchVars, scrapeVars>>

\* lines 234-237: one iteration of the loop over all_excel_files
process_folders_file ==
    /\ folders_pc = "files"
    /\ file_idx < Len(excel_files)
    /\ data_from_one_file' = process_single_file(excel_files[file_idx + 1])
    /\ master_data_list' = master_data_list \o data_from_one_file'
    /\ file_idx' = file_idx + 1
    /\ UNCHANGED <<excel_files, folders_pc, pivotVars, dateVars, sheetVars, convVars, orchVars, scrapeVars>>

\* lines 239-248: the consolidated workbook, when there is any datum
process_folders_end ==
    /\ folders_pc = "files"
    /\ file_idx = Len(excel_files)
    /\ IF master_data_list # <<>>
       THEN /\ all_data' = master_data_list
            /\ workbook' = OutputFile(master_data_list)
            /\ pivot_pc' = IF workbook' = None THEN "skipped" ELSE "saved"
            /\ folders_pc' = "success"
       ELSE /\ folders_pc' = "no_data"
            /\ UNCHANGED pivotVars
    /\ UNCHANGED <<excel_files, file_idx, master_data_list, data_from_one_file,
                   dateVars, sheetVars, convVars, orchVars, scrapeVars>>

Stem49 == "Dec_2023_Week1_12-4_-_12-8"
Stem50 == "JGBF_Dec._15_2023_-_report"
StemUnknown == "report"

SummarySheet == [name |-> "Summary", a2 |-> PyNone, rows |-> <<>>]

TableSheet(page, table, subtitle, rows) ==
    [name |-> "P" \o IntToStr(page) \o "_" \o table,
     a2 |-> Str("Subtitle: " \o subtitle), rows |-> rows]

\* two pages of the same instrument, each with a main summary whose one row is
\* PROPRIETARY / SALES with value 100 and balance ^50
TwoPages(subtitle) ==
    << SummarySheet,
       TableSheet(1, "Table1_Main_Summary", subtitle, <<RowPS>>),
       TableSheet(2, "Table1_Main_Summary", subtitle, <<RowPS>>) >>

SheetLists ==
    { TwoPages("JGB(10-year) Futures"), TwoPages("3-Month TONA Futures"),
      << SummarySheet,
         TableSheet(1, "Table1_Main_Summary", "JGB(10-year) Futures", <<RowPS>>),
         TableSheet(1, "Table2_Brokerage_Bre", "JGB(10-year) Futures", <<RowFP>>) >>,
      << SummarySheet >>,
      << TableSheet(1, "Table1_Main_Summary", "JGB(10-year) Futures",
                    <<Row8(RowPS[1], RowPS[2], Str("300"), Str("-"))>>) >>,
      << TableSheet(1, "Table1_Main_Summary", "Nikkei 225 Futures", <<RowPS>>) >> }

ExcelFiles ==
    [stem : {Stem49, Stem50, StemUnknown}, readable : {TRUE}, sheets : SheetLists]
    \cup {[stem |-> Stem49, readable |-> FALSE, sheets |-> <<>>]}

MaxFiles == 2

FoldersInit ==
    /\ PivotIdle /\ DateIdle /\ SheetIdle /\ ConvIdle /\ OrchIdle /\ ScrapeIdle
    /\ excel_files \in UNION {[1..n -> ExcelFiles] : n \in 0..MaxFiles}
    /\ file_idx = 0
    /\ master_data_list = <<>>
    /\ data_from_one_file = <<>>
    /\ folders_pc = "start"

FoldersNext == process_folders_begin \/ process_folders_file \/ process_folders_end

SpecFolders == FoldersInit /\ [][FoldersNext]_vars

(***************************************************************************)
(* Specification SpecOutput: the two ways to generate_output_file, the     *)
(* call with a list of data and the call at the end of process_folders.    *)
(***************************************************************************)

OutputInit == PivotInit \/ FoldersInit

OutputNext == PivotNext \/ FoldersNext

SpecOutput == OutputInit /\ [][OutputNext]_vars

(***************************************************************************)
(* Specification SpecStems: process_folders over workbooks of one sheet    *)
(* each, under many file names.                                            *)
(***************************************************************************)

\* names that match a pattern structurally and hold an impossible date or an
\* unknown month, and match no other pattern that yields a date
ImpossibleStems ==
    { "rep_2023_Week5_2-30", "_2023_Week1_13-4", "_0000_Week1_1-5",
      "a_Foo._15_2023_-_b", "a_Feb_30_2023_-_b" }

FileStems ==
    ImpossibleStems \cup
    { Stem49, Stem50, StemUnknown, "Dec_2023_Week1_13-4", "DEC_2023_week1_12-4",
      "_0999_Week1_1-5", "Jan_2021_Week1_1-1_-_1-8" }

\* a workbook whose one sheet holds one row with a value and a balance
OneSheetFile(stem) ==
    [stem |-> stem, readable |-> TRUE,
     sheets |-> << TableSheet(1, "Table1_Main_Summary", "JGB(10-year) Futures", <<RowPS>>) >>]

StemsInit ==
    /\ PivotIdle /\ DateIdle /\ SheetIdle /\ ConvIdle /\ OrchIdle /\ ScrapeIdle
    /\ excel_files \in UNION {[1..n -> {OneSheetFile(stem) : stem \in FileStems}] :
                                  n \in 0..MaxFiles}
    /\ file_idx = 0
    /\ master_data_list = <<>>
    /\ data_from_one_file = <<>>
    /\ folders_pc = "start"

SpecStems == StemsInit /\ [][FoldersNext]_vars

(***************************************************************************)
(* new2.py: TitleEnhancedConverter, page classification and page jobs      *)
(***************************************************************************)

\* len(s): a stand-in <xx> counts as the one character it stands for
RECURSIVE PyLen(_)
PyLen(s) ==
    IF s = "" THEN 0
    ELSE IF SubSeq(s, 1, 1) = "<"
         THEN 1 + PyLen(SubSeq(s, (CHOOSE i \in 1..Len(s) :
                                      /\ SubSeq(s, i, i) = ">"
                                      /\ \A j \in 1..(i - 1) : SubSeq(s, j, j) # ">") + 1,
                               Len(s)))
         ELSE 1 + PyLen(SubSeq(s, 2, Len(s)))

\* list.sort(key=len, reverse=True) is stable: x goes after the elements that
\* are at least as long
RECURSIVE InsertByLen(_, _)
InsertByLen(sorted, x) ==
    IF sorted = <<>> THEN <<x>>
    ELSE IF PyLen(Head(sorted)) >= PyLen(x)
         THEN <<Head(sorted)>> \o InsertByLen(Tail(sorted), x)
         ELSE <<x>> \o sorted

RECURSIVE SortByLenDesc(_, _)
SortByLenDesc(list, n) ==
    IF n = 0 THEN <<>> ELSE InsertByLen(SortByLenDesc(list, n - 1), list[n])

\* lines 105-111 and 117
target_subtitles ==
    SortByLenDesc(<< GENKIN_MINI, "JGB(10-year) Futures",
                     "mini-10-year JGB Futures (Cash-Settled)",
                     "mini-20-year JGB Futures", "3-Month TONA Futures" >>, 5)

\* line 114
primary_exclusion_keywords == <<"Options on", "<o><pu><shi2><yo><n>">>

\* lines 119-126
table_section_titles ==
    << "<sou><kei><ten><ji><ko><gou><kei><ten><i><taku><gou><kei> Total, Proprietary & Brokerage",
       "<i><taku><nai><wake> Breakdown of Brokerage",
       "<hou><jin><nai><wake> Breakdown of Institutions",
       "<kin><yuu><ki2><kan><nai><wake> Breakdown of Financial Institutions" >>

table_keywords ==
    << "<sou><kei><ten><ji><ko><gou><kei><ten><i><taku><gou><kei>", "<i><taku><nai><wake>",
       "<hou><jin><nai><wake>", "<kin><yuu><ki2><kan><nai><wake>" >>

table_names ==
    << "Table1_Main_Summary", "Table2_Brokerage_Breakdown",
       "Table3_Institutions_Breakdown", "Table4_Financial_Breakdown" >>

\* page.get_text("text") of a page given by its lines
RECURSIVE PageText(_)
PageText(lines) ==
    IF lines = <<>> THEN ""
    ELSE IF Len(lines) = 1 THEN lines[1]
    ELSE lines[1] \o "\n" \o PageText(Tail(lines))

\* lines 134-136: the titles whose keyword the text holds, in keyword order
RECURSIVE FoundTitles(_, _)
FoundTitles(text, n) ==
    IF n = 0 THEN <<>>
    ELSE IF Contains(text, table_keywords[n])
         THEN Append(FoundTitles(text, n - 1), table_section_titles[n])
         ELSE FoundTitles(text, n - 1)

\* lines 137-138
RECURSIVE PadTitles(_)
PadTitles(found_titles) ==
    IF Len(found_titles) < Len(table_keywords)
    THEN PadTitles(Append(found_titles,
             "Table Title " \o IntToStr(Len(found_titles) + 1) \o " (Not Found)"))
    ELSE found_titles

extract_table_titles_from_text_NoPadding(text) ==
    FoundTitles(text, Len(table_keywords))

\* lines 132-139
extract_table_titles_from_text(text) ==
    PadTitles(FoundTitles(text, Len(table_keywords)))

NoSubtitle == [found |-> FALSE, subtitle |-> ""]

LineExcluded(line) ==
    \E k \in DOMAIN primary_exclusion_keywords : Contains(line, primary_exclusion_keywords[k])

LineMatches(line) ==
    \E k \in DOMAIN target_subtitles : Contains(line, target_subtitles[k])

ScanLines_NoExclusion(lines) ==
    LET hits == {k \in DOMAIN lines : Strip(lines[k]) # "" /\ LineMatches(lines[k])}
    IN  IF hits = {} THEN NoSubtitle
        ELSE [found |-> TRUE,
              subtitle |-> Strip(lines[CHOOSE k \in hits : \A h \in hits : k <= h])]

\* lines 163-179: the scan of one page's lines
RECURSIVE ScanLines(_)
ScanLines(lines) ==
    IF lines = <<>> THEN NoSubtitle
    ELSE IF Strip(Head(lines)) = "" THEN ScanLines(Tail(lines))
    ELSE IF LineExcluded(Head(lines)) THEN ScanLines(Tail(lines))
    ELSE IF LineMatches(Head(lines)) THEN [found |-> TRUE, subtitle |-> Strip(Head(lines))]
    ELSE ScanLines(Tail(lines))

\* lines 152-184: the dict page index (from 0) -> subtitle
get_relevant_pages_and_subtitles(pdf) ==
    [i \in {i \in 0..(Len(pdf.pages) - 1) : ScanLines(pdf.pages[i + 1].lines).found}
        |-> ScanLines(pdf.pages[i + 1].lines).subtitle]

\* the keys of a dict of page indexes in insertion order, which is ascending
RECURSIVE Ascending(_)
Ascending(S) ==
    IF S = {} THEN <<>>
    ELSE LET m == CHOOSE x \in S : \A y \in S : x <= y
         IN  <<m>> \o Ascending(S \ {m})

\* lines 209-217
PageJob(pdf, page_num, subtitle) ==
    [pdf_name |-> pdf.stem,
     page_number |-> page_num,
     subtitle |-> subtitle,
     job_id |-> pdf.stem \o "-P" \o IntToStr(page_num + 1),
     table_titles |-> extract_table_titles_from_text(PageText(pdf.pages[page_num + 1].lines))]

\* lines 202-218: the jobs of one PDF file, none when relevant_pages is empty
JobsOfPdf(pdf) ==
    LET relevant_pages == get_relevant_pages_and_subtitles(pdf)
        page_nums == Ascending(DOMAIN relevant_pages)
    IN  [k \in DOMAIN page_nums |-> PageJob(pdf, page_nums[k], relevant_pages[page_nums[k]])]

\* lines 200-218
RECURSIVE JobsOfPdfs(_)
JobsOfPdfs(pdfs) ==
    IF pdfs = <<>> THEN <<>> ELSE JobsOfPdf(Head(pdfs)) \o JobsOfPdfs(Tail(pdfs))

(***************************************************************************)
(* new2.py: convert_page_worker, combine_pages, convert_docx_to_excel      *)
(***************************************************************************)

page_docx_path_PageOnly(job) ==
    "page_" \o IntToStr(job.page_number) \o ".docx"

\* line 48
page_docx_path(job) ==
    job.pdf_name \o "_page_" \o IntToStr(job.page_number) \o ".docx"

\* lines 46-86: the record a job returns; raises says whether the conversion
\* raised, table_count is len(chunk_doc.tables) of the converted page
convert_page_worker(job, raises, table_count) ==
    IF raises
    THEN [job_id |-> job.job_id, pdf_name |-> job.pdf_name,
          page_number |-> job.page_number, success |-> FALSE]
    ELSE [job_id |-> job.job_id, pdf_name |-> job.pdf_name,
          page_number |-> job.page_number, page_path |-> page_docx_path(job),
          subtitle |-> job.subtitle, table_count |-> table_count,
          table_titles |-> job.table_titles, success |-> TRUE]

IsSuccess(result) == result.success

pdf_results_AllOrNothing(results) ==
    IF \E i \in DOMAIN results : ~results[i].success THEN EmptyDict
    ELSE [name \in {results[i].pdf_name : i \in DOMAIN results} |->
             SelectSeq(results, LAMBDA r : r.pdf_name = name)]

pdf_results_UntilFailure(results) ==
    LET stop == {i \in DOMAIN results : ~results[i].success}
        kept == IF stop = {} THEN results
                ELSE SubSeq(results, 1, (CHOOSE i \in stop : \A j \in stop : i <= j) - 1)
    IN  [name \in {kept[i].pdf_name : i \in DOMAIN kept} |->
            SelectSeq(kept, LAMBDA r : r.pdf_name = name)]

\* lines 232-238: pdf_name -> its successful results, in completion order
pdf_results(results) ==
    [name \in {results[i].pdf_name : i \in {i \in DOMAIN results : results[i].success}} |->
        SelectSeq(SelectSeq(results, IsSuccess), LAMBDA r : r.pdf_name = name)]

RECURSIVE InsertByPage(_, _)
InsertByPage(sorted, r) ==
    IF sorted = <<>> THEN <<r>>
    ELSE IF Head(sorted).page_number <= r.page_number
         THEN <<Head(sorted)>> \o InsertByPage(Tail(sorted), r)
         ELSE <<r>> \o sorted

RECURSIVE SortLoop(_, _)
SortLoop(results, n) ==
    IF n = 0 THEN <<>> ELSE InsertByPage(SortLoop(results, n - 1), results[n])

SortByPage_CompletionOrder(results) == results

\* line 242: results.sort(key=lambda x: x['page_number'])
SortByPage(results) == SortLoop(results, Len(results))

\* the tables of a converted page, in the order of the page: the page path
\* and the position of the table on its page, from 0
TablesOfPage(result) ==
    [k \in 1..result.table_count |-> [page_path |-> result.page_path, pos |-> k - 1]]

\* lines 252-261: the tables of the combined document, page after page in
\* the order of page_paths
RECURSIVE combine_pages(_)
combine_pages(results) ==
    IF results = <<>> THEN <<>>
    ELSE TablesOfPage(Head(results)) \o combine_pages(Tail(results))

\* lines 277-287: table index (from 0) -> the subtitle and the table title of
\* the page that the table counts place it on
RECURSIVE TableMaps(_)
TableMaps(results) ==
    IF results = <<>> THEN <<>>
    ELSE [i \in 1..Head(results).table_count |->
             [subtitle |-> Head(results).subtitle,
              table_title |->
                  IF (i - 1) % 4 < Len(Head(results).table_titles)
                  THEN Head(results).table_titles[((i - 1) % 4) + 1]
                  ELSE "Table Title " \o IntToStr(((i - 1) % 4) + 1)]]
         \o TableMaps(Tail(results))

\* table_name[:20]
Prefix(str, n) == IF Len(str) <= n THEN str ELSE SubSeq(str, 1, n)

\* lines 292-299: the sheet of the table of index i (from 0)
TableSheetOf(tables, maps, i) ==
    [name |-> "P" \o IntToStr((i \div 4) + 1) \o "_" \o Prefix(table_names[(i % 4) + 1], 20),
     a2 |-> "Subtitle: " \o (IF i + 1 \in DOMAIN maps THEN maps[i + 1].subtitle
                              ELSE "Subtitle Not Found"),
     a3 |-> "Table Title: " \o (IF i + 1 \in DOMAIN maps THEN maps[i + 1].table_title
                                 ELSE "Table Title Not Found"),
     table |-> tables[i + 1]]

\* lines 267-304: the sheets after the summary sheet; no workbook is saved
\* when the combined document has no table
convert_docx_to_excel(tables, results) ==
    IF Len(tables) = 0 THEN None
    ELSE [none |-> FALSE,
          sheets |-> [k \in DOMAIN tables |-> TableSheetOf(tables, TableMaps(results), k - 1)]]

\* lines 239-247, for one pdf_name
CombinedDocx(results) ==
    [pages |-> [k \in DOMAIN SortByPage(results) |-> SortByPage(results)[k].page_number],
     tables |-> combine_pages(SortByPage(results))]

ExcelOf(results) ==
    convert_docx_to_excel(combine_pages(SortByPage(results)), SortByPage(results))

(***************************************************************************)
(* Specifications SpecConvert and SpecClassify: process_pdfs_selectively.  *)
(* SpecConvert follows the page jobs through the pool, in every order of   *)
(* completion; SpecClassify stops after the scan, over many more pages.    *)
(***************************************************************************)

\* lines 198-223: the scan of the PDF files and the page jobs
scan_pdfs ==
    /\ convert_pc = "start"
    /\ all_page_jobs' = JobsOfPdfs(pdf_files)
    /\ pending' = DOMAIN all_page_jobs'
    /\ convert_pc' = IF all_page_jobs' = <<>> THEN "no_jobs" ELSE "converting"
    /\ UNCHANGED <<pdf_files, page_results, docx_folder, excel_output,
                   pivotVars, dateVars, sheetVars, folderVars, orchVars, scrapeVars>>

\* the PDF file of a job
PdfOf(job) == pdf_files[CHOOSE f \in DOMAIN pdf_files : pdf_files[f].stem = job.pdf_name]

\* lines 226-229 and convert_page_worker: as_completed hands over the result of
\* any job that is still out, and the job's conversion may have raised
as_completed ==
    /\ convert_pc = "converting"
    /\ \E j \in pending, raises \in BOOLEAN :
          /\ page_results' = Append(page_results,
                 convert_page_worker(all_page_jobs[j], raises,
                     PdfOf(all_page_jobs[j]).pages[all_page_jobs[j].page_number + 1].tables))
          /\ pending' = pending \ {j}
    /\ UNCHANGED <<pdf_files, all_page_jobs, docx_folder, excel_output, convert_pc,
                   pivotVars, dateVars, sheetVars, folderVars, orchVars, scrapeVars>>

\* lines 230-247: after the pool is done, the results by pdf_name, each list
\* sorted, combined and exported
combine_and_export ==
    /\ convert_pc = "converting"
    /\ pending = {}
    /\ docx_folder' = [name \in DOMAIN pdf_results(page_results) |->
                          CombinedDocx(pdf_results(page_results)[name])]
    /\ excel_output' =
          [name \in {n \in DOMAIN pdf_results(page_results) :
                        ExcelOf(pdf_results(page_results)[n]) # None} |->
              ExcelOf(pdf_results(page_results)[name]).sheets]
    /\ convert_pc' = "done"
    /\ UNCHANGED <<pdf_files, all_page_jobs, pending, page_results,
                   pivotVars, dateVars, sheetVars, folderVars, orchVars, scrapeVars>>

TitleLine == "Trading by Type of Investors"

\* pages of a report: tables says how many tables the conversion of the page finds
PageJGB ==
    [lines |-> << TitleLine, CHOKI \o " JGB(10-year) Futures",
                  table_keywords[1] \o " Total", table_keywords[2] \o " Breakdown",
                  table_keywords[3], table_keywords[4] >>,
     tables |-> 4]

PageTONA ==
    [lines |-> << "", "  3-Month TONA Futures ", table_keywords[1], table_keywords[3] >>,
     tables |-> 3]

PageMini ==
    [lines |-> << GENKIN_MINI \o " mini-10-year JGB Futures (Cash-Settled)" >>, tables |-> 0]

PageOptions ==
    [lines |-> << TitleLine, "Options on JGB(10-year) Futures", table_keywords[1] >>,
     tables |-> 4]

PageKinds == {PageJGB, PageTONA, PageMini, PageOptions}

MaxPages == 3

PageLists == UNION {[1..n -> PageKinds] : n \in 0..MaxPages}

\* the *.pdf files of the input folder: one file, or two of different names
PdfFolders ==
    {<< [stem |-> "A", pages |-> p] >> : p \in PageLists}
    \cup {f \in {<< [stem |-> "A", pages |-> p], [stem |-> "B", pages |-> q] >> :
                     p \in PageLists, q \in PageLists} :
             Len(f[1].pages) + Len(f[2].pages) <= MaxPages}

ConvertInit ==
    /\ PivotIdle /\ DateIdle /\ SheetIdle /\ FolderIdle /\ OrchIdle /\ ScrapeIdle
    /\ pdf_files \in PdfFolders
    /\ all_page_jobs = <<>> /\ pending = {} /\ page_results = <<>>
    /\ docx_folder = EmptyDict /\ excel_output = EmptyDict
    /\ convert_pc = "start"

ConvertNext == scan_pdfs \/ as_completed \/ combine_and_export

SpecConvert == ConvertInit /\ [][ConvertNext]_vars

\* lines of a page, for the scan
ScanLineSet ==
    { "", "   ", TitleLine, "  JGB(10-year) Futures  ", "Options on JGB(10-year) Futures",
      "<o><pu><shi2><yo><n> " \o CHOKI, "mini-20-year JGB Futures\t",
      GENKIN_MINI \o " mini-10-year JGB Futures (Cash-Settled)", "x 3-Month TONA Futures y" }

MaxLines == 3

ScanPages == {[lines |-> l, tables |-> 4] : l \in UNION {[1..n -> ScanLineSet] : n \in 0..MaxLines}}

ClassifyInit ==
    /\ PivotIdle /\ DateIdle /\ SheetIdle /\ FolderIdle /\ OrchIdle /\ ScrapeIdle
    /\ pdf_files \in {<< [stem |-> "A", pages |-> <<p>> \o rest] >> :
                          p \in ScanPages, rest \in {<<>>, <<PageJGB>>, <<PageOptions, PageTONA>>}}
    /\ all_page_jobs = <<>> /\ pending = {} /\ page_results = <<>>
    /\ docx_folder = EmptyDict /\ excel_output = EmptyDict
    /\ convert_pc = "start"

ClassifyNext == scan_pdfs

SpecClassify == ClassifyInit /\ [][ClassifyNext]_vars

(***************************************************************************)
(* Specification SpecTitles: process_pdfs_selectively over one PDF file    *)
(* whose pages convert to three, four or five tables.                      *)
(***************************************************************************)

PageFive ==
    [lines |-> << TitleLine, "mini-20-year JGB Futures", table_keywords[1],
                  table_keywords[2] >>,
     tables |-> 5]

MaxTitlePages == 2

TitlesInit ==
    /\ PivotIdle /\ DateIdle /\ SheetIdle /\ FolderIdle /\ OrchIdle /\ ScrapeIdle
    /\ pdf_files \in {<< [stem |-> "A", pages |-> p] >> :
                          p \in UNION {[1..n -> {PageJGB, PageTONA, PageFive}] :
                                           n \in 1..MaxTitlePages}}
    /\ all_page_jobs = <<>> /\ pending = {} /\ page_results = <<>>
    /\ docx_folder = EmptyDict /\ excel_output = EmptyDict
    /\ convert_pc = "start"

SpecTitles == TitlesInit /\ [][ConvertNext]_vars

(***************************************************************************)
(* Specification SpecPaths: the page jobs of two PDF files of one folder,  *)
(* under names that hold the separator of the page paths.                  *)
(***************************************************************************)

PathStems == {"A", "A_page_0", "A_page_1", "A_page", "B"}

PathsInit ==
    /\ PivotIdle /\ DateIdle /\ SheetIdle /\ FolderIdle /\ OrchIdle /\ ScrapeIdle
    /\ pdf_files \in
          {f \in [1..2 -> [stem : PathStems,
                            pages : UNION {[1..n -> {PageJGB, PageTONA, PageOptions}] :
                                              n \in 0..MaxTitlePages}]] :
              f[1].stem # f[2].stem}
    /\ all_page_jobs = <<>> /\ pending = {} /\ page_results = <<>>
    /\ docx_folder = EmptyDict /\ excel_output = EmptyDict
    /\ convert_pc = "start"

SpecPaths == PathsInit /\ [][ClassifyNext]_vars

(***************************************************************************)
(* Scrape.py: JPXCompleteScraper.run_complete_scrape.  Specification       *)
(* SpecScrape runs the scraper over an archive dropdown and the report     *)
(* tables of its pages, in targeted and in full mode.                      *)
(***************************************************************************)

TEMP_STORAGE_DIR == "jpx_temp_storage"

\* lines 133-135: the key of a dropdown option
ArchiveKey(option_text) ==
    CHOOSE key \in UNION { { IF Contains(lowered, "current") THEN "Current" ELSE year_text :
                                lowered \in {Lower(year_text)} } :
                            year_text \in {Strip(option_text)} } : TRUE

\* discovered_urls[key] = url_path on a dict that keeps insertion order
DictSet(d, k, v) ==
    IF \E i \in DOMAIN d : d[i].key = k
    THEN [i \in DOMAIN d |-> IF d[i].key = k THEN [key |-> k, url |-> v] ELSE d[i]]
    ELSE Append(d, [key |-> k, url |-> v])

DictHas(d, k) == \E i \in DOMAIN d : d[i].key = k

DictItem(d, k) == d[CHOOSE i \in DOMAIN d : d[i].key = k]

\* lines 131-136
RECURSIVE discovered_urls(_, _)
discovered_urls(options, n) ==
    IF n = 0 THEN <<>>
    ELSE DictSet(discovered_urls(options, n - 1),
                 ArchiveKey(options[n].text), options[n].value)

\* lines 236-249: the pages that the mode selects, None when targeted mode
\* finds no page
UrlsToVisit(cfg, urls) ==
    IF cfg.mode = "targeted"
    THEN (IF DictHas(urls, "Current") THEN <<DictItem(urls, "Current")>> ELSE <<>>)
         \o (IF DictHas(urls, cfg.year) THEN <<DictItem(urls, cfg.year)>> ELSE <<>>)
    ELSE urls

\* a row of the report table as the loops of lines 155-179 see it: the number
\* of its cells, the stripped text of the first cell (157, 174), what
\* parse_report_date makes of it (158, 175), the link of the second cell and
\* the file name that generate_filename derives (167, 179)
ArchiveRow(text, parsed, filename) ==
    [ncells |-> 3, date_text |-> text, parsed_date |-> parsed,
     href |-> "/pdf/" \o filename, has_link |-> TRUE, pdf_filename |-> filename]

\* a row holds what parse_report_date and generate_filename give for its text
RowAsParsed(row) ==
    /\ row.parsed_date = parse_report_date(row.date_text)
    /\ row.pdf_filename = generate_filename(row.date_text, "pdf")

\* lines 165-167 and 177-179
ReportEntry(row) ==
    [report_year |-> IntToStr(row.parsed_date.year),
     date |-> row.date_text,
     pdf_url |-> row.href,
     pdf_filename |-> row.pdf_filename]

\* line 161
IsTargetRow(row, cfg) ==
    /\ row.ncells >= 3
    /\ row.parsed_date.ok
    /\ row.parsed_date.year = StrToInt(cfg.year)
    /\ Lower(row.parsed_date.month) = Lower(cfg.month)
    /\ row.parsed_date.week = StrToInt(cfg.week)

\* a row of full mode: three cells and a date that parses
IsReportRow(row) == row.ncells >= 3 /\ row.parsed_date.ok

\* lines 148-183: a cell without a link raises, and the handler returns []
extract_table_data(rows, cfg) ==
    IF cfg.mode = "targeted"
    THEN LET hits == {i \in DOMAIN rows : IsTargetRow(rows[i], cfg)}
         IN  IF hits = {} \/ ~rows[Leftmost(hits)].has_link THEN <<>>
             ELSE <<ReportEntry(rows[Leftmost(hits)])>>
    ELSE IF \E i \in DOMAIN rows : IsReportRow(rows[i]) /\ ~rows[i].has_link THEN <<>>
    ELSE LET kept == SelectSeq(rows, IsReportRow)
         IN  [k \in DOMAIN kept |-> ReportEntry(kept[k])]

\* line 196
LocalPath(entry) ==
    TEMP_STORAGE_DIR \o "/" \o entry.report_year \o "/" \o entry.pdf_filename

LogLine(msg, arg) == [msg |-> msg, arg |-> arg]

\* lines 189-212: the first n reports, from the state st on; ok[k] tells
\* whether the download of the k-th report succeeds
RECURSIVE download_and_store_reports(_, _, _, _)
download_and_store_reports(reports, n, ok, st) ==
    IF n = 0 THEN st
    ELSE LET prev == download_and_store_reports(reports, n - 1, ok, st)
             entry == reports[n]
         IN  IF LocalPath(entry) \in prev.storage
             THEN [prev EXCEPT !.log = Append(@, LogLine("skip", entry.pdf_filename))]
             ELSE IF ok[n]
             THEN [prev EXCEPT !.storage = @ \cup {LocalPath(entry)},
                               !.all_data = Append(@, entry),
                               !.log = Append(@, LogLine("downloaded", entry.pdf_filename))]
             ELSE [prev EXCEPT !.failed = Append(@, entry),
                               !.log = Append(@, LogLine("failed", entry.pdf_filename))]

\* lines 228-249: the driver, the discovery of the archive pages and the
\* choice of the pages to visit; each failure ends the run
run_complete_scrape_begin ==
    /\ scrape_pc = "start"
    /\ \E driver_ok, main_page_ok \in BOOLEAN :
          LET urls == discovered_urls(dropdown, Len(dropdown))
          IN  IF ~driver_ok \/ ~main_page_ok \/ urls = <<>>
              THEN /\ scrape_pc' = "returned"
                   /\ UNCHANGED <<archive_urls, urls_to_visit>>
              ELSE /\ archive_urls' = urls
                   /\ IF UrlsToVisit(config, urls) = <<>>
                      THEN /\ scrape_pc' = "returned"
                           /\ UNCHANGED urls_to_visit
                      ELSE /\ urls_to_visit' = UrlsToVisit(config, urls)
                           /\ scrape_pc' = "visiting"
    /\ UNCHANGED <<config, dropdown, archive_pages, storage, page_idx, scraper_all_data,
                   failed_downloads, scrape_log, pivotVars, dateVars, sheetVars,
                   folderVars, convVars, orchVars>>

\* lines 214-224 and 252-256: one iteration of the loop over urls_to_visit,
\* scrape_page and the test that halts the search
scrape_page ==
    /\ scrape_pc = "visiting"
    /\ page_idx < Len(urls_to_visit)
    /\ \E loaded \in BOOLEAN :
          \E found_data \in {IF loaded
                             THEN extract_table_data(
                                      archive_pages[urls_to_visit[page_idx + 1].url], config)
                             ELSE <<>>} :
              \E ok \in [DOMAIN found_data -> BOOLEAN] :
                  \E after \in {download_and_store_reports(found_data, Len(found_data), ok,
                                    [storage |-> storage, all_data |-> scraper_all_data,
                                     failed |-> failed_downloads,
                                     log |-> Append(scrape_log,
                                         LogLine("visit", urls_to_visit[page_idx + 1].key))])} :
                      /\ storage' = after.storage
                      /\ scraper_all_data' = after.all_data
                      /\ failed_downloads' = after.failed
                      /\ scrape_log' = after.log
                      /\ scrape_pc' = IF config.mode = "targeted" /\ after.all_data # <<>>
                                      THEN "halted" ELSE "visiting"
    /\ page_idx' = page_idx + 1
    /\ UNCHANGED <<config, dropdown, archive_pages, archive_urls, urls_to_visit,
                   pivotVars, dateVars, sheetVars, folderVars, convVars, orchVars>>

\* lines 255-261: after the loop, the closing report
run_complete_scrape_end ==
    /\ \/ scrape_pc = "halted"
       \/ scrape_pc = "visiting" /\ page_idx = Len(urls_to_visit)
    /\ scrape_log' = scrape_log
           \o (IF scrape_pc = "halted" THEN <<LogLine("halting", "")>> ELSE <<>>)
           \o <<LogLine("complete", "")>>
           \o (IF scraper_all_data = <<>> /\ config.mode = "targeted"
               THEN <<LogLine("no_reports", "")>> ELSE <<>>)
    /\ scrape_pc' = "complete"
    /\ UNCHANGED <<config, dropdown, archive_pages, storage, archive_urls, urls_to_visit,
                   page_idx, scraper_all_data, failed_downloads,
                   pivotVars, dateVars, sheetVars, folderVars, convVars, orchVars>>

TargetLabel == "Dec 2023, Week2{12/11 - 12/15}"

\* the target of config.ini: week 2 of December 2023
Configs ==
    { [mode |-> "targeted", year |-> "2023", month |-> "dec", week |-> "2"],
      [mode |-> "full", year |-> "", month |-> "", week |-> ""] }

\* the tables of a page: the target report below a later one, another year's
\* report below a row that is no report, the target in a row of two cells,
\* the target without a link, none
TargetRow ==
    ArchiveRow(TargetLabel, [ok |-> TRUE, year |-> 2023, month |-> "Dec", week |-> 2],
               "Dec_2023_Week2_12-11_-_12-15.pdf")

LaterRow ==
    ArchiveRow("Dec 2023, Week3{12/18 - 12/22}",
               [ok |-> TRUE, year |-> 2023, month |-> "Dec", week |-> 3],
               "Dec_2023_Week3_12-18_-_12-22.pdf")

OtherYearRow ==
    ArchiveRow("Jan 2024, Week1{1/4 - 1/5}",
               [ok |-> TRUE, year |-> 2024, month |-> "Jan", week |-> 1],
               "Jan_2024_Week1_1-4_-_1-5.pdf")

HeadingRow == ArchiveRow("Weekly report", NoReport, "Weekly_report.pdf")

ArchiveRows == {TargetRow, LaterRow, OtherYearRow, HeadingRow}

ArchiveTables ==
    { << LaterRow, TargetRow >>,
      << HeadingRow, OtherYearRow >>,
      << [TargetRow EXCEPT !.ncells = 2] >>,
      << [TargetRow EXCEPT !.has_link = FALSE] >>,
      << >> }

ArchiveOptions ==
    { [text |-> "Current Year ", value |-> "/index.html"],
      [text |-> "2023", value |-> "/2023.html"],
      [text |-> "2024", value |-> "/2024.html"] }

MaxOptions == 2

Dropdowns ==
    {d \in UNION {[1..n -> ArchiveOptions] : n \in 0..MaxOptions} :
        \A i, j \in DOMAIN d : i # j => d[i] # d[j]}

ScrapeInit ==
    /\ \A row \in ArchiveRows : RowAsParsed(row)
    /\ PivotIdle /\ DateIdle /\ SheetIdle /\ FolderIdle /\ ConvIdle /\ OrchIdle
    /\ config \in Configs
    /\ dropdown \in Dropdowns
    /\ archive_pages \in [{dropdown[i].value : i \in DOMAIN dropdown} -> ArchiveTables]
    /\ storage \in {{}, {LocalPath(ReportEntry(TargetRow))}}
    /\ archive_urls = <<>> /\ urls_to_visit = <<>> /\ page_idx = 0
    /\ scraper_all_data = <<>> /\ failed_downloads = <<>> /\ scrape_log = <<>>
    /\ scrape_pc = "start"

ScrapeNext == run_complete_scrape_begin \/ scrape_page \/ run_complete_scrape_end

SpecScrape == ScrapeInit /\ [][ScrapeNext]_vars

(***************************************************************************)
(* orchestrator.py: run_workflow.  Specification SpecWorkflow runs the     *)
(* three stages over what the scrape left in jpx_temp_storage: stage 2 is  *)
(* process_pdfs_selectively on each PDF folder, stage 3 is process_folders *)
(* on the workbooks that stage 2 wrote.                                    *)
(***************************************************************************)

\* lines 29-32: the message goes to stderr and the process exits with 1
print_error ==
    /\ printed' = printed \cup {"ERROR"}
    /\ exit_status' = 1
    /\ orch_pc' = "exited"

pdf_source_folders_AnyFolder ==
    LET found == {d \in scraper_output_dir.entries : d.is_dir}
        names == Sorted({d.name : d \in found})
    IN  [k \in DOMAIN names |-> CHOOSE d \in found : d.name = names[k]]

\* lines 112 and 119: the folders that hold a *.pdf file, sorted
pdf_source_folders ==
    LET found == {d \in scraper_output_dir.entries : d.is_dir /\ d.pdfs # <<>>}
        names == Sorted({d.name : d \in found})
    IN  [k \in DOMAIN names |-> CHOOSE d \in found : d.name = names[k]]

\* the workbook that multiple.py reads back from one that new2.py wrote:
\* the summary sheet, then one sheet for each table, whose rows from row 6
\* on are the table's rows after its first
XlsxFile(name, sheets) ==
    [stem |-> name, readable |-> TRUE,
     sheets |-> <<SummarySheet>> \o
                [k \in DOMAIN sheets |->
                    [name |-> sheets[k].name, a2 |-> Str(sheets[k].a2), rows |-> <<RowPS>>]]]

\* multiple.py lines 220-226: the *.xlsx files of each folder, sorted by name
RECURSIVE all_excel_files(_)
all_excel_files(folders) ==
    IF folders = <<>> THEN <<>>
    ELSE LET found_files == Sorted({name \o ".xlsx" : name \in DOMAIN Head(folders)})
         IN  [k \in DOMAIN found_files |->
                 XlsxFile(Stem(found_files[k]), Head(folders)[Stem(found_files[k])])]
             \o all_excel_files(Tail(folders))

\* lines 75-101: stage 1 ends the run when the scraper fails or leaves nothing
run_scraper ==
    /\ orch_pc = "stage1"
    /\ \E scraped \in BOOLEAN :
          IF ~scraped \/ scraper_output_dir = None \/ scraper_output_dir.entries = {}
          THEN print_error
          ELSE /\ printed' = printed \cup {"Stage 1 Complete"}
               /\ orch_pc' = "stage2"
               /\ UNCHANGED exit_status
    /\ UNCHANGED <<scraper_output_dir, folder_idx, excel_output_folders,
                   pivotVars, dateVars, sheetVars, folderVars, convVars, scrapeVars>>

\* lines 104-116: stage 2 ends the run when no folder holds a PDF file
find_pdf_folders ==
    /\ orch_pc = "stage2"
    /\ \E imported \in BOOLEAN :
          IF ~imported \/ pdf_source_folders = <<>>
          THEN print_error
          ELSE /\ orch_pc' = "folders"
               /\ UNCHANGED <<printed, exit_status>>
    /\ UNCHANGED <<scraper_output_dir, folder_idx, excel_output_folders,
                   pivotVars, dateVars, sheetVars, folderVars, convVars, scrapeVars>>

\* lines 119-129 and new2.py lines 186-195: the output folder of the next PDF
\* folder is created and a new converter is handed the folder's PDF files
convert_folder_begin ==
    /\ orch_pc = "folders"
    /\ folder_idx < Len(pdf_source_folders)
    /\ excel_output_folders' = Append(excel_output_folders, EmptyDict)
    /\ pdf_files' = pdf_source_folders[folder_idx + 1].pdfs
    /\ all_page_jobs' = <<>> /\ pending' = {} /\ page_results' = <<>>
    /\ docx_folder' = EmptyDict /\ excel_output' = EmptyDict
    /\ convert_pc' = "start"
    /\ orch_pc' = "converting"
    /\ UNCHANGED <<scraper_output_dir, folder_idx, printed, exit_status,
                   pivotVars, dateVars, sheetVars, folderVars, scrapeVars>>

\* line 129 returns: the workbooks of the folder are in its output folder
convert_folder_end ==
    /\ orch_pc = "converting"
    /\ convert_pc \in {"done", "no_jobs"}
    /\ excel_output_folders' =
          [excel_output_folders EXCEPT ![Len(excel_output_folders)] = excel_output]
    /\ folder_idx' = folder_idx + 1
    /\ orch_pc' = "folders"
    /\ UNCHANGED <<scraper_output_dir, printed, exit_status,
                   pivotVars, dateVars, sheetVars, folderVars, convVars, scrapeVars>>

\* lines 131-148 and multiple.py lines 219-226: stage 2 is reported complete
\* and process_folders is called on the output folders
consolidate_begin ==
    /\ orch_pc = "folders"
    /\ folder_idx = Len(pdf_source_folders)
    /\ \E imported \in BOOLEAN :
          IF ~imported \/ excel_output_folders = <<>>
          THEN /\ printed' = printed \cup {"Stage 2 Complete", "ERROR"}
               /\ exit_status' = 1
               /\ orch_pc' = "exited"
               /\ UNCHANGED folderVars
          ELSE /\ printed' = printed \cup {"Stage 2 Complete"}
               /\ excel_files' = all_excel_files(excel_output_folders)
               /\ file_idx' = 0
               /\ master_data_list' = <<>>
               /\ data_from_one_file' = <<>>
               /\ folders_pc' = "start"
               /\ orch_pc' = "consolidating"
               /\ UNCHANGED exit_status
    /\ UNCHANGED <<scraper_output_dir, folder_idx, excel_output_folders,
                   pivotVars, dateVars, sheetVars, convVars, scrapeVars>>

\* lines 150-176: process_folders has returned; stage 3 and the workflow are
\* reported complete, the intermediate files are deleted on request, and
\* the process ends
consolidate_end ==
    /\ orch_pc = "consolidating"
    /\ folders_pc \in {"no_files", "no_data", "success"}
    /\ printed' = printed \cup {"Stage 3 Complete", "Workflow Complete"}
    /\ \E cleanup_choice \in {"y", ""} :
          IF cleanup_choice = "y"
          THEN scraper_output_dir' = None /\ excel_output_folders' = <<>>
          ELSE UNCHANGED <<scraper_output_dir, excel_output_folders>>
    /\ exit_status' = 0
    /\ orch_pc' = "exited"
    /\ UNCHANGED <<folder_idx, pivotVars, dateVars, sheetVars, folderVars, convVars, scrapeVars>>

\* PDF files the scraper may have stored: a report of one relevant page, the
\* same under a name that holds no date, a report of one options page, and
\* a report whose one relevant page converts to no table
PdfReport == [stem |-> Stem49, pages |-> <<PageJGB>>]
PdfUndated == [stem |-> StemUnknown, pages |-> <<PageJGB>>]
PdfOptions == [stem |-> Stem50, pages |-> <<PageOptions>>]
PdfNoTable == [stem |-> Stem50, pages |-> <<PageMini>>]

\* a report whose one page names the cash-settled mini future in English only
PageMiniEnglish ==
    [lines |-> << TitleLine, "mini-10-year JGB Futures (Cash-Settled)",
                  table_keywords[1], table_keywords[2], table_keywords[3],
                  table_keywords[4] >>,
     tables |-> 4]

PdfMiniEnglish == [stem |-> Stem49, pages |-> <<PageMiniEnglish>>]

PdfLists ==
    { <<>>, <<PdfReport>>, <<PdfUndated>>, <<PdfOptions>>, <<PdfNoTable>>,
      <<PdfUndated, PdfReport>>, <<PdfMiniEnglish>> }

\* jpx_temp_storage: at most one folder for each year, and maybe a stray file
StorageEntries ==
    { [name |-> "index.html", is_dir |-> FALSE, pdfs |-> <<>>] }
    \cup [name : {"2023", "2024"}, is_dir : {TRUE}, pdfs : PdfLists]

Storages ==
    {None} \cup
    { [none |-> FALSE, entries |-> S] :
        S \in {T \in SUBSET StorageEntries :
                  \A d, e \in T : d.name = e.name => d = e} }

WorkflowInit ==
    /\ PivotIdle /\ DateIdle /\ SheetIdle /\ FolderIdle /\ ConvIdle /\ ScrapeIdle
    /\ scraper_output_dir \in Storages
    /\ folder_idx = 0
    /\ excel_output_folders = <<>>
    /\ printed = {}
    /\ exit_status = Running
    /\ orch_pc = "stage1"

WorkflowNext ==
    \/ run_scraper \/ find_pdf_folders
    \/ convert_folder_begin \/ scan_pdfs \/ as_completed \/ combine_and_export
    \/ convert_folder_end
    \/ consolidate_begin
    \/ process_folders_begin \/ process_folders_file \/ process_folders_end
    \/ consolidate_end

SpecWorkflow == WorkflowInit /\ [][WorkflowNext]_vars

(***************************************************************************)
(* Properties of the template and of the consolidation step (SpecPivot).   *)
(***************************************************************************)

InstrumentCodes == {instruments[k][1] : k \in DOMAIN instruments}
MainCatCodes == {main_summary_categories[k][2] : k \in DOMAIN main_summary_categories}
BreakdownCatCodes == {brokerage_categories[k][2] : k \in DOMAIN brokerage_categories}
SubcatCodes == {subcategories[k][2] : k \in DOMAIN subcategories}
MetricCodes == {"VALUE", "BALANCE"}

\* the enumerated universe of (instrument, category, subcategory, metric)
TupleUniverse ==
    InstrumentCodes \X (MainCatCodes \cup BreakdownCatCodes) \X SubcatCodes \X MetricCodes

\* the column the template holds for a tuple, and the code the row parser gives it
TemplateCodeOf(t) ==
    IF t[2] \in {main_cats[k][1] : k \in DOMAIN main_cats}
    THEN template_main_code(t[1], t[2], t[3], t[4])
    ELSE template_breakdown_code(t[1], t[2], t[3], t[4])

ParserCodeOf(t) == series_code(t[2] \in MainCatCodes, t[1], t[2], t[3], t[4])

HeaderCodes == Tail(workbook.rows[1])

\* C1 as stated: the template has exactly 176 columns (48 + 128), in every
\* output file, whatever the input data.
C1_Original ==
    pivot_pc = "saved" => Len(HeaderCodes) = 176

\* C1 amended: the template has exactly 112 columns, 48 main-summary columns
\* followed by 64 breakdown columns, in every output file, whatever the input data.
C1_TemplateSize ==
    /\ Len(get_template_columns) = 112
    /\ Len(TemplateLoop(TRUE, main_cats)) = 48
    /\ Len(TemplateLoop(FALSE, breakdown_cats)) = 64
    /\ pivot_pc = "saved" => Len(HeaderCodes) = 112

C1_Witness ==
    pivot_pc = "saved" /\ Len(all_data) = MaxData /\ Len(workbook.rows) > 3

TemplateInjective ==
    \A t1, t2 \in TupleUniverse : t1 # t2 => TemplateCodeOf(t1) # TemplateCodeOf(t2)

ParserInjective ==
    \A t1, t2 \in TupleUniverse : t1 # t2 => ParserCodeOf(t1) # ParserCodeOf(t2)

\* C2: distinct tuples (instrument, category, subcategory, metric) of the
\* universe get distinct series codes, from the template and from the row
\* parser, and the header of an output file holds no code twice.
C2_Injective ==
    /\ TemplateInjective
    /\ ParserInjective
    /\ Cardinality(TemplateCodes) = Len(get_template_columns)
    /\ pivot_pc = "saved" =>
          \A i, j \in DOMAIN HeaderCodes : i # j => HeaderCodes[i] # HeaderCodes[j]

C2_Witness ==
    /\ pivot_pc = "saved"
    /\ \E i, j \in DOMAIN all_data :
          /\ all_data[i].code \in TemplateCodes /\ all_data[j].code \in TemplateCodes
          /\ all_data[i].code # all_data[j].code

IndexPermutations(n) == {p \in [1..n -> 1..n] : \A i, j \in 1..n : i # j => p[i] # p[j]}
Permute(data, p) == [i \in DOMAIN data |-> data[p[i]]]

\* two data of the list share a (SeriesCode, WeekKey) but differ in value
Conflicting(data) ==
    \E i, j \in DOMAIN data :
        /\ data[i].code = data[j].code /\ data[i].date = data[j].date
        /\ data[i].value # data[j].value

\* C3 as stated: every permutation of the data yields the same matrix, also
\* when data share a (SeriesCode, WeekKey) and differ in value.
C3_Original ==
    pivot_pc # "ready" =>
        \A p \in IndexPermutations(Len(all_data)) : OutputFile(Permute(all_data, p)) = workbook

\* C3 amended: every permutation of the data yields the same matrix (same week
\* rows, same columns, same cells) provided no two data share a (SeriesCode,
\* WeekKey) with different values.
C3_OrderInsensitive ==
    (pivot_pc # "ready" /\ ~Conflicting(all_data)) =>
        \A p \in IndexPermutations(Len(all_data)) : OutputFile(Permute(all_data, p)) = workbook

C3_Witness ==
    /\ pivot_pc = "saved" /\ Len(all_data) = MaxData /\ ~Conflicting(all_data)
    /\ Len(workbook.rows) > 3
    /\ \E i, j \in DOMAIN all_data :
          /\ i < j /\ all_data[i].code = all_data[j].code
          /\ all_data[i].date # UNKNOWN_DATE /\ all_data[j].date # UNKNOWN_DATE
          /\ StrLess(all_data[j].date, all_data[i].date)

\* C6: the rows of the matrix are the distinct week keys of the data, without
\* the unparseable marker, in ascending order; its columns are the template
\* columns in template order; a cell holds the value of a datum of its
\* (week key, series code) when there is one and is empty otherwise; a datum
\* whose code is outside the template has no column.
C6_Matrix ==
    pivot_pc = "saved" =>
        LET rows == workbook.rows
            n == Len(rows) - 2
            dateOf(r) == rows[r + 2][1]
            hits(r, c) == {i \in DOMAIN all_data :
                              /\ all_data[i].code = get_template_columns[c].code
                              /\ all_data[i].date = dateOf(r)}
        IN  /\ n >= 1
            /\ {dateOf(r) : r \in 1..n}
                   = {all_data[i].date : i \in DOMAIN all_data} \ {UNKNOWN_DATE}
            /\ \A r \in 1..(n - 1) : StrLess(dateOf(r), dateOf(r + 1))
            /\ Len(HeaderCodes) = Len(get_template_columns)
            /\ \A c \in DOMAIN get_template_columns :
                   HeaderCodes[c] = get_template_columns[c].code
            /\ \A r \in 1..n :
                   /\ Len(rows[r + 2]) = Len(get_template_columns) + 1
                   /\ \A c \in DOMAIN get_template_columns :
                          IF hits(r, c) = {}
                          THEN rows[r + 2][c + 1] = ""
                          ELSE rows[r + 2][c + 1] \in {all_data[i].value : i \in hits(r, c)}
            /\ \A i \in DOMAIN all_data :
                   all_data[i].code \notin TemplateCodes =>
                       \A c \in DOMAIN HeaderCodes : HeaderCodes[c] # all_data[i].code

C6_Witness ==
    /\ pivot_pc = "saved"
    /\ Len(workbook.rows) = 4
    /\ \E i \in DOMAIN all_data : all_data[i].code = CodeX
    /\ \E i \in DOMAIN all_data : all_data[i].date = UNKNOWN_DATE
    /\ \E c \in DOMAIN HeaderCodes :
          workbook.rows[3][c + 1] = "" /\ workbook.rows[4][c + 1] = "100"

(***************************************************************************)
(* Properties of the week key of a report label (SpecDate).                *)
(***************************************************************************)

\* ISO 8601: the week of a day belongs to the year that holds its Thursday and
\* is numbered by that Thursday's place among the Thursdays of the year
ThursdayWeekKey(y, m, d) ==
    LET today == Ordinal(y, m, d)
        thursday == today - ((today + 6) % 7) + 3
        Y == CHOOSE k \in {y - 1, y, y + 1} :
                 Ordinal(k, 1, 1) <= thursday /\ thursday <= Ordinal(k, 12, 31)
    IN  IntToStr(Y) \o "-" \o Pad2(((thursday - Ordinal(Y, 1, 1)) \div 7) + 1)

\* C10: the week key of the report label 'Jul 2025, Week2{7/7 - 7/11}', derived
\* through the file name generated from it, is "2025-28"; and for every label
\* "<Mon> <YYYY>, Week<N>{<M>/<D> - ...}" whose <YYYY>-<M>-<D> is a date, the
\* week key is the ISO week of that date, the same whenever the label is the same.
C10_WeekKey ==
    date_pc = "parsed" =>
        /\ report_label = "Jul 2025, Week2{7/7 - 7/11}" => week_key = "2025-28"
        /\ \A t \in LabelParts :
              (report_label = LabelOf(t) /\ ValidDate(t[2], t[1], t[4]))
                  => week_key = ThursdayWeekKey(t[2], t[1], t[4])

C10_Witness ==
    /\ date_pc = "parsed"
    /\ report_label = "Jul 2025, Week2{7/7 - 7/11}"
    /\ xlsx_stem = "Jul_2025_Week2_7-7_-_7-11"
    /\ week_key = "2025-28"

(***************************************************************************)
(* Properties of the row parser (SpecSheet, SpecFolders).                  *)
(***************************************************************************)

ScenarioFiles ==
    {f \in ExcelFiles :
        /\ f.readable /\ extract_date_from_filename(f.stem) = "2023-49"
        /\ \E t \in Subtitles : f.sheets = TwoPages(t)}

ScenarioValue(f) ==
    Datum(template_main_code(extract_instrument_from_subtitle(f.sheets[2].a2.s),
                             "PROPRIETARY", "SALES", "VALUE"), "2023-49", "100")

ScenarioBalance(f) ==
    Datum(template_main_code(extract_instrument_from_subtitle(f.sheets[2].a2.s),
                             "PROPRIETARY", "SALES", "BALANCE"), "2023-49", "-50")

JustProcessed(f) == folders_pc = "files" /\ file_idx > 0 /\ excel_files[file_idx] = f

\* C4 as stated: processing a workbook of week 2023-49 with two main-summary
\* pages of one instrument, each with one PROPRIETARY / SALES row of value 100
\* and balance ^50, produces exactly two data: the VALUE code with 100 and the
\* BALANCE code with -50, both at 2023-49.
C4_Original ==
    \A f \in ScenarioFiles :
        JustProcessed(f) =>
            /\ Len(data_from_one_file) = 2
            /\ Range(data_from_one_file) = {ScenarioValue(f), ScenarioBalance(f)}

\* C4 amended: processing such a workbook produces four records, the VALUE
\* datum (100) and the BALANCE datum (-50) at 2023-49 once for each of the two
\* pages, in page order; the distinct data among them are exactly those two.
C4_TwoPerPage ==
    \A f \in ScenarioFiles :
        JustProcessed(f) =>
            /\ data_from_one_file = << ScenarioValue(f), ScenarioBalance(f),
                                      ScenarioValue(f), ScenarioBalance(f) >>
            /\ Cardinality(Range(data_from_one_file)) = 2
            /\ ScenarioValue(f).code \in TemplateCodes
            /\ ScenarioBalance(f).code \in TemplateCodes

C4_Witness ==
    /\ \E f \in ScenarioFiles : JustProcessed(f)
    /\ Len(data_from_one_file) = 4
    /\ data_from_one_file[2].value = "-50"

\* the last datum of the sheet that has the code of the k-th
LastOfCode(k) ==
    CHOOSE j \in DOMAIN sheet_results :
        /\ sheet_results[j].code = sheet_results[k].code
        /\ \A i \in DOMAIN sheet_results :
              sheet_results[i].code = sheet_results[k].code => i <= j

\* C5: every series code the row parser emits, for every instrument that
\* extract_instrument_from_subtitle returns, both table types and every row,
\* is a code of the template (TRADINGBYTYPEOFINVESTORS for the breakdown of
\* JGB10YEARFUTURES, TOTAL_PROPRIETARY_BROKERAGE otherwise), so the matrix
\* built from the sheet's data has a column for each datum, whose cell in the
\* row of the datum's week holds the value of the last datum of that code.
C5_CodesInTemplate ==
    sheet_pc = "done" =>
        /\ \A k \in DOMAIN sheet_results : sheet_results[k].code \in TemplateCodes
        /\ sheet_results # <<>> =>
              LET rows == OutputFile(sheet_results).rows
              IN  \A k \in DOMAIN sheet_results :
                      \E c \in DOMAIN get_template_columns :
                          /\ rows[1][c + 1] = sheet_results[k].code
                          /\ rows[3][1] = sheet_results[k].date
                          /\ rows[3][c + 1] = sheet_results[LastOfCode(k)].value

C5_Witness ==
    /\ sheet_pc = "done"
    /\ table_type_of(sheet.name) = "brokerage_breakdown"
    /\ extract_instrument_from_subtitle(read_excel_sheet(sheet).subtitle) = "JGB10YEARFUTURES"
    /\ Len(sheet_results) = 2
    /\ StartsWith(sheet_results[1].code, "JGBF.TRADINGBYTYPEOFINVESTORS.JGB10YEARFUTURES.")

(***************************************************************************)
(* Properties of the converter (SpecConvert, SpecClassify).                *)
(***************************************************************************)

\* the results recorded for the job of index j
ResultsOf(j) ==
    {i \in DOMAIN page_results : page_results[i].job_id = all_page_jobs[j].job_id}

\* the sheets of a document's workbook that hold the table at position pos of
\* the converted page of result r
SheetsOfTable(r, pos) ==
    {s \in DOMAIN excel_output[r.pdf_name] :
        excel_output[r.pdf_name][s].table = [page_path |-> r.page_path, pos |-> pos]}

\* C7: page-conversion failures are isolated. Whatever jobs were submitted and
\* whichever of them raise, every job that has come back has exactly one
\* result record and every other job is still awaited (none is aborted: as
\* long as a job is out the run goes on collecting); when the run is over
\* every job has its
\* record, a failure carries no page, and every successfully converted page is
\* in the combined document of its PDF exactly once, with each of its tables
\* exported as exactly one sheet under the page's subtitle.
C7_FailuresIsolated ==
    /\ convert_pc \in {"converting", "done"} =>
          /\ \A j \in DOMAIN all_page_jobs :
                Cardinality(ResultsOf(j)) = IF j \in pending THEN 0 ELSE 1
          /\ Len(page_results) = Len(all_page_jobs) - Cardinality(pending)
    /\ pending # {} => convert_pc = "converting"
    /\ convert_pc = "done" =>
          /\ pending = {}
          /\ \A i \in DOMAIN page_results :
                \A r \in {page_results[i]} :
                    IF ~r.success THEN "page_path" \notin DOMAIN r
                    ELSE /\ r.pdf_name \in DOMAIN docx_folder
                         /\ Cardinality({k \in DOMAIN docx_folder[r.pdf_name].pages :
                                docx_folder[r.pdf_name].pages[k] = r.page_number}) = 1
                         /\ r.table_count > 0 => r.pdf_name \in DOMAIN excel_output
                         /\ \A pos \in 0..(r.table_count - 1) :
                               /\ Cardinality(SheetsOfTable(r, pos)) = 1
                               /\ \A s \in SheetsOfTable(r, pos) :
                                     excel_output[r.pdf_name][s].a2 = "Subtitle: " \o r.subtitle

C7_Witness ==
    /\ convert_pc = "done"
    /\ \E i \in DOMAIN page_results, k \in DOMAIN page_results :
          /\ i < k
          /\ ~page_results[i].success
          /\ page_results[k].success
          /\ page_results[k].pdf_name = page_results[i].pdf_name
          /\ page_results[k].table_count > 0
          /\ page_results[k].pdf_name \in DOMAIN excel_output

\* the jobs of a PDF whose conversion succeeded, in the order of submission,
\* which is the order of the pages
SucceededJobs(name) ==
    SelectSeq(all_page_jobs,
              LAMBDA j : /\ j.pdf_name = name
                         /\ \E i \in DOMAIN page_results :
                               page_results[i].job_id = j.job_id /\ page_results[i].success)

TablesOn(job) == PdfOf(job).pages[job.page_number + 1].tables

\* the number of tables on the pages before the k-th of jobs
RECURSIVE TablesBefore(_, _)
TablesBefore(jobs, k) ==
    IF k <= 1 THEN 0 ELSE TablesBefore(jobs, k - 1) + TablesOn(jobs[k - 1])

\* C8: nothing is combined or exported while a submitted job is still out,
\* and the outcome depends on which pages were converted, never on the order
\* in which the workers completed: the combined document of a PDF holds its
\* converted pages in strictly ascending page number, and the table at
\* position pos of the k-th of these pages has the global index (the tables of
\* the pages before it) + pos, in the combined document and in the workbook,
\* where its sheet is named after that index and carries the page's subtitle.
C8_PageOrder ==
    /\ (convert_pc = "done" \/ docx_folder # EmptyDict \/ excel_output # EmptyDict) =>
          /\ pending = {}
          /\ \A j \in DOMAIN all_page_jobs : ResultsOf(j) # {}
    /\ convert_pc = "done" =>
          \A f \in DOMAIN pdf_files :
              \A name \in {pdf_files[f].stem} :
                  \A jobs \in {SucceededJobs(name)} :
                      \A total \in {TablesBefore(jobs, Len(jobs) + 1)} :
                          /\ (jobs # <<>>) <=> (name \in DOMAIN docx_folder)
                          /\ (total > 0) <=> (name \in DOMAIN excel_output)
                          /\ jobs # <<>> =>
                                /\ docx_folder[name].pages =
                                       [k \in DOMAIN jobs |-> jobs[k].page_number]
                                /\ \A k \in 1..(Len(jobs) - 1) :
                                       docx_folder[name].pages[k] < docx_folder[name].pages[k + 1]
                                /\ Len(docx_folder[name].tables) = total
                          /\ total > 0 =>
                                /\ Len(excel_output[name]) = total
                                /\ \A k \in DOMAIN jobs :
                                      \A pos \in 0..(TablesOn(jobs[k]) - 1) :
                                          \A g \in {TablesBefore(jobs, k) + pos} :
                                              /\ docx_folder[name].tables[g + 1] =
                                                     [page_path |-> page_docx_path(jobs[k]),
                                                      pos |-> pos]
                                              /\ excel_output[name][g + 1].table =
                                                     docx_folder[name].tables[g + 1]
                                              /\ excel_output[name][g + 1].name =
                                                     "P" \o IntToStr((g \div 4) + 1) \o "_"
                                                         \o Prefix(table_names[(g % 4) + 1], 20)
                                              /\ excel_output[name][g + 1].a2 =
                                                     "Subtitle: " \o jobs[k].subtitle

C8_Witness ==
    /\ convert_pc = "done"
    /\ \E i \in DOMAIN page_results, k \in DOMAIN page_results :
          /\ i < k
          /\ page_results[i].success /\ page_results[k].success
          /\ page_results[i].pdf_name = page_results[k].pdf_name
          /\ page_results[i].page_number > page_results[k].page_number
          /\ page_results[i].table_count = 4 /\ page_results[k].table_count = 3
          /\ Len(excel_output[page_results[i].pdf_name]) >= 7
          /\ excel_output[page_results[i].pdf_name][4].table.page_path =
                 page_results[i].page_path

\* the results of the page jobs of a document: all of them, and the successes
ResultsOfPdf(name) == SelectSeq(page_results, LAMBDA r : r.pdf_name = name)

SuccessesOfPdf(name) == SelectSeq(ResultsOfPdf(name), IsSuccess)

\* C21: a document all of whose page jobs failed has no combined document
\* and no workbook; every document with a successful page has its combined
\* document, made of its own converted pages, and the workbook of its own
\* tables, whatever happened to the jobs of the other documents.
C21_FailedDocumentIsEmpty ==
    convert_pc = "done" =>
        \A f \in DOMAIN pdf_files :
            \A name \in {pdf_files[f].stem} :
                \A own \in {SuccessesOfPdf(name)} :
                    IF own = <<>>
                    THEN name \notin DOMAIN docx_folder /\ name \notin DOMAIN excel_output
                    ELSE /\ name \in DOMAIN docx_folder
                         /\ docx_folder[name] = CombinedDocx(own)
                         /\ {docx_folder[name].pages[k] : k \in DOMAIN docx_folder[name].pages}
                               = {own[k].page_number : k \in DOMAIN own}
                         /\ IF ExcelOf(own) = None THEN name \notin DOMAIN excel_output
                            ELSE /\ name \in DOMAIN excel_output
                                 /\ excel_output[name] = ExcelOf(own).sheets

\* every job of document A failed and document B has its workbook
C21_Witness ==
    /\ convert_pc = "done"
    /\ ResultsOfPdf("A") # <<>>
    /\ SuccessesOfPdf("A") = <<>>
    /\ "A" \notin DOMAIN docx_folder
    /\ SuccessesOfPdf("B") # <<>>
    /\ "B" \in DOMAIN excel_output
    /\ Len(excel_output["B"]) = 4

\* C22: the jobs submitted in one run are one for each relevant page of each
\* document, and no two of them have the same page path.
C22_DistinctPaths ==
    convert_pc \in {"converting", "no_jobs"} =>
        \A i \in DOMAIN all_page_jobs, j \in DOMAIN all_page_jobs :
            i # j =>
                /\ <<all_page_jobs[i].pdf_name, all_page_jobs[i].page_number>> #
                       <<all_page_jobs[j].pdf_name, all_page_jobs[j].page_number>>
                /\ page_docx_path(all_page_jobs[i]) # page_docx_path(all_page_jobs[j])

\* page 1 of document A and page 0 of document A_page_1 are both submitted
C22_Witness ==
    /\ convert_pc = "converting"
    /\ \E i \in DOMAIN all_page_jobs, j \in DOMAIN all_page_jobs :
          /\ all_page_jobs[i].pdf_name = "A" /\ all_page_jobs[i].page_number = 1
          /\ all_page_jobs[j].pdf_name = "A_page_1" /\ all_page_jobs[j].page_number = 0
          /\ page_docx_path(all_page_jobs[i]) = "A_page_1.docx"
          /\ page_docx_path(all_page_jobs[j]) = "A_page_1_page_0.docx"

\* the lines of a page (numbered from 1) that are not blank, hold no exclusion
\* keyword and hold a target keyword
Candidates(lines) ==
    {k \in DOMAIN lines :
        /\ Strip(lines[k]) # ""
        /\ \A e \in DOMAIN primary_exclusion_keywords :
              ~Contains(lines[k], primary_exclusion_keywords[e])
        /\ \E t \in DOMAIN target_subtitles : Contains(lines[k], target_subtitles[t])}

\* the jobs created for the page of index i (from 0) of the PDF named name
JobsOfPage(name, i) ==
    {j \in DOMAIN all_page_jobs :
        all_page_jobs[j].pdf_name = name /\ all_page_jobs[j].page_number = i}

\* C9: after the scan, a page with no line that is not blank, holds no
\* exclusion keyword and holds a target keyword has no conversion job; any
\* other page has exactly one job, whose subtitle is the whole trimmed text of
\* the first such line in document order, whatever lines follow it.
C9_Classification ==
    convert_pc # "start" =>
        \A f \in DOMAIN pdf_files :
            \A i \in DOMAIN pdf_files[f].pages :
                \A K \in {Candidates(pdf_files[f].pages[i].lines)} :
                    \A J \in {JobsOfPage(pdf_files[f].stem, i - 1)} :
                        IF K = {} THEN J = {}
                        ELSE /\ Cardinality(J) = 1
                             /\ \A j \in J :
                                   all_page_jobs[j].subtitle =
                                       Strip(pdf_files[f].pages[i].lines[
                                           CHOOSE k \in K : \A h \in K : k <= h])

C9_Witness ==
    /\ convert_pc = "converting"
    /\ pdf_files[1].pages[1].lines =
           << "Options on JGB(10-year) Futures", "  JGB(10-year) Futures  ",
              "x 3-Month TONA Futures y" >>
    /\ Len(pdf_files[1].pages) = 3
    /\ Len(all_page_jobs) = 2
    /\ all_page_jobs[1].page_number = 0
    /\ all_page_jobs[1].subtitle = "JGB(10-year) Futures"
    /\ all_page_jobs[2].page_number = 2

(***************************************************************************)
(* Properties of the week key of a file name (SpecStems).                  *)
(***************************************************************************)

\* f"{iso_year}-{iso_week:02d}" of some ISO year and week: digits, "-", and two
\* digits that number a week from 01 to 53
IsWeekKey(key) ==
    \E n \in 1..(Len(key) - 3) :
        /\ Len(key) = n + 3
        /\ AllDigits(key, 1, n) /\ CharAt(key, n + 1) = "-" /\ AllDigits(key, n + 2, 2)
        /\ StrToInt(SubSeq(key, n + 2, n + 3)) \in 1..53

ExtractedDates(filename) ==
    LET m1 == match1(filename)
        m2 == match2(filename)
        m3 == match3(filename)
    IN  << IF m1.ok THEN [ok |-> TRUE, y |-> StrToInt(m1.g[1]), m |-> StrToInt(m1.g[2]),
                          d |-> StrToInt(m1.g[3])]
           ELSE [ok |-> FALSE],
           IF m2.ok THEN [ok |-> TRUE, y |-> StrToInt(m2.g[2]),
                          m |-> month_map_get(TitleWord(m2.g[1])), d |-> StrToInt(m2.g[3])]
           ELSE [ok |-> FALSE],
           IF m3.ok THEN [ok |-> TRUE, y |-> StrToInt(m3.g[3]),
                          m |-> month_map_get(TitleWord(m3.g[1])), d |-> StrToInt(m3.g[2])]
           ELSE [ok |-> FALSE] >>

IsDate(e) == e.ok /\ ValidDate(e.y, e.m, e.d)

\* the ISO week of the first of the extracted dates that P holds of
KeyOfFirst(E, P(_)) ==
    IF \A k \in 1..3 : ~P(E[k]) THEN UNKNOWN_DATE
    ELSE LET first == CHOOSE k \in 1..3 : P(E[k]) /\ \A j \in 1..(k - 1) : ~P(E[j])
         IN  IF IsDate(E[first]) THEN ThursdayWeekKey(E[first].y, E[first].m, E[first].d)
             ELSE UNKNOWN_DATE

Matches(e) == e.ok

\* the file processed last adds its data under the key, none under UNKNOWN_DATE
AddedUnder(key) ==
    /\ key = UNKNOWN_DATE => data_from_one_file = <<>>
    /\ key # UNKNOWN_DATE =>
          /\ Len(data_from_one_file) = 2
          /\ \A k \in DOMAIN data_from_one_file : data_from_one_file[k].date = key

\* C17 as claimed: the week key of a file name is the ISO week of the date
\* extracted by the first pattern, in priority order, that matches the name;
\* no pattern of lower priority determines it when such a pattern matches.
C17_Original ==
    file_idx > 0 =>
        AddedUnder(KeyOfFirst(ExtractedDates(excel_files[file_idx].stem), Matches))

\* C17: the week key of a file name is the ISO week of the date extracted by
\* the first pattern, in priority order, that matches the name and whose
\* groups are a calendar date with a known month; a pattern of lower priority
\* determines it when every pattern before it fails to match or extracts no
\* such date, and the key is UNKNOWN_DATE when no pattern extracts a date.
C17_FirstValidPattern ==
    file_idx > 0 =>
        AddedUnder(KeyOfFirst(ExtractedDates(excel_files[file_idx].stem), IsDate))

\* the first pattern matches with month 13 and the second gives December 13
C17_Witness ==
    /\ file_idx > 0
    /\ excel_files[file_idx].stem = "Dec_2023_Week1_13-4"
    /\ match1(excel_files[file_idx].stem).ok
    /\ Len(data_from_one_file) = 2
    /\ data_from_one_file[1].date = "2023-50"

(***************************************************************************)
(* Properties of the cells of a row (SpecSheet).                           *)
(***************************************************************************)

\* the values of the records of the sheet for the metric
ValuesOf(metric) ==
    {sheet_results[k].value :
        k \in {k \in DOMAIN sheet_results :
                  Contains(sheet_results[k].code, "." \o metric \o ".W")}}

\* what a cell that is read as it stands must give: "-" and the rest for a
\* cell that starts with the negative glyph, the cell itself otherwise
Normalized(cell) ==
    IF StartsWith(cell.s, TRIANGLE) THEN "-" \o SubSeq(cell.s, 2, Len(cell.s)) ELSE cell.s

\* C12: in a sheet of one row of eight cells that gives any datum, a value or
\* balance cell that is "-" or "" gives no record for its metric, and any
\* other cell without surrounding blanks gives the cell's text with a leading
\* negative glyph replaced by "-" and every other character kept: the row
\* with value ^1,234 and balance "-" gives the single record -1,234.  No
\* record ever has an empty value.
C12_SignNormalization ==
    sheet_pc = "done" =>
        /\ \A k \in DOMAIN sheet_results : sheet_results[k].value # ""
        /\ (Len(sheet.rows) = 1 /\ sheet_results # <<>>) =>
              \A row \in {sheet.rows[1]} :
                  /\ Len(sheet_results) <= 2
                  /\ \A t \in {<<"VALUE", row[6]>>, <<"BALANCE", row[8]>>} :
                        IF t[2] \in {Str("-"), Str("")}
                        THEN ValuesOf(t[1]) = {}
                        ELSE (~t[2].isNone /\ Strip(t[2].s) = t[2].s) =>
                                 ValuesOf(t[1]) = {Normalized(t[2])}
        /\ sheet.rows = <<RowNeg>> =>
              \A k \in DOMAIN sheet_results :
                  k = 1 /\ sheet_results[k].value = "-1,234"

C12_Witness ==
    /\ sheet_pc = "done"
    /\ sheet.rows = <<RowNeg>>
    /\ Len(sheet_results) = 1
    /\ sheet_results[1].value = "-1,234"
    /\ Contains(sheet_results[1].code, ".SALES.VALUE.W")

(***************************************************************************)
(* Properties of the rows of a table (SpecSheet).                          *)
(***************************************************************************)

HasEightFields(row) == Len(row) >= 8

\* the sheet without its rows of fewer than 8 fields
WithoutShortRows(sh) == [sh EXCEPT !.rows = SelectSeq(sh.rows, HasEightFields)]

\* C13: the rows of fewer than 8 fields give no datum and change nothing for
\* the other rows: the data of a sheet with such rows are those of the same
\* sheet without them, none when every row is short; a row of 5 fields before a
\* row of 8 leaves the data of the row of 8.
C13_ShortRowsSkipped ==
    sheet_pc = "done" =>
        /\ (\E k \in DOMAIN sheet.rows : ~HasEightFields(sheet.rows[k])) =>
              sheet_results = ProcessSheet(WithoutShortRows(sheet), sheet_date)
        /\ WithoutShortRows(sheet).rows = <<>> => sheet_results = <<>>
        /\ ( /\ sheet.rows = << SubSeq(RowPS, 1, 5), RowPS >>
             /\ sheet.name = "P1_Table1_Main_Summary"
             /\ sheet.a2 = Str("Subtitle: 3-Month TONA Futures") ) =>
              /\ Len(sheet_results) = 2
              /\ sheet_results[1].value = "100" /\ sheet_results[2].value = "-50"

C13_Witness ==
    /\ sheet_pc = "done"
    /\ sheet.rows = << SubSeq(RowPS, 1, 5), RowPS >>
    /\ sheet.name = "P1_Table1_Main_Summary"
    /\ sheet.a2 = Str("Subtitle: 3-Month TONA Futures")
    /\ Len(sheet_results) = 2
    /\ sheet_results[2].value = "-50"

\* the codes of the entries of the dictionary whose label the text holds, in
\* the order of the dictionary
EntriesIn(map, text) ==
    LET Hit(entry) == Contains(text, entry[1])
        hits == SelectSeq(map, Hit)
    IN  [k \in DOMAIN hits |-> hits[k][2]]

\* a sheet of a known table type and instrument with one row of eight fields
\* whose category and subcategory are not empty and is not a total
OneLabelledRow ==
    /\ Len(sheet.rows) = 1
    /\ Len(sheet.rows[1]) >= 8
    /\ StrOrEmpty(sheet.rows[1][1]) # "" /\ StrOrEmpty(sheet.rows[1][2]) # ""
    /\ ~Contains(StrOrEmpty(sheet.rows[1][2]), GOKEI)
    /\ table_type_of(sheet.name) # ""
    /\ extract_instrument_from_subtitle(read_excel_sheet(sheet).subtitle) # ""

\* C19: the category of a row is the code of the earliest entry, in the order
\* of the dictionary of the table type (main summary dictionary for
\* main_summary, breakdown dictionary otherwise), whose label the category
\* cell holds, and the subcategory likewise in the subcategory dictionary;
\* a row whose category or subcategory matches no entry yields no datum.
C19_FirstMatchWins ==
    (sheet_pc = "done" /\ OneLabelledRow) =>
        \A cats \in {EntriesIn(IF table_type_of(sheet.name) = "main_summary"
                                THEN main_summary_categories ELSE brokerage_categories,
                                StrOrEmpty(sheet.rows[1][1]))} :
        \A subs \in {EntriesIn(subcategories, StrOrEmpty(sheet.rows[1][2]))} :
            IF cats = <<>> \/ subs = <<>> THEN sheet_results = <<>>
            ELSE /\ sheet_results =
                       RowData(table_type_of(sheet.name) = "main_summary",
                               extract_instrument_from_subtitle(read_excel_sheet(sheet).subtitle),
                               sheet_date, cats[1], subs[1],
                               sheet.rows[1][6], sheet.rows[1][8])
                 /\ \A k \in DOMAIN sheet_results :
                       Contains(sheet_results[k].code,
                                ".TRADINGVALUE." \o cats[1] \o "." \o subs[1] \o ".")

\* a breakdown row whose category cell names individuals and then institutions
\* and whose subcategory cell names purchases and then sales
C19_Witness ==
    /\ sheet_pc = "done"
    /\ sheet.name = "P1_Table2_Brokerage_Bre"
    /\ sheet.rows = <<RowTwoLabels>>
    /\ Len(sheet_results) = 2
    /\ Contains(sheet_results[1].code, ".INSTITUTIONS.SALES.VALUE.W")
    /\ Contains(sheet_results[2].code, ".INSTITUTIONS.SALES.BALANCE.W")

\* the subcategory cell of the row holds the label of a total
IsTotalRow(row) == Len(row) >= 2 /\ Contains(StrOrEmpty(row[2]), GOKEI)

NotTotalRow(row) == ~IsTotalRow(row)

\* C20: a row whose subcategory cell holds the label of a total yields no
\* datum, whatever its category, value and balance are, even when the cell
\* also holds the label of a subcategory: a sheet whose only row is such a row
\* gives no datum, and the data of a sheet with such rows are those of the
\* sheet without them.
C20_TotalRowsSkipped ==
    sheet_pc = "done" =>
        /\ (Len(sheet.rows) = 1 /\ IsTotalRow(sheet.rows[1])) => sheet_results = <<>>
        /\ (\E k \in DOMAIN sheet.rows : IsTotalRow(sheet.rows[k])) =>
              sheet_results =
                  ProcessSheet([sheet EXCEPT !.rows = SelectSeq(sheet.rows, NotTotalRow)],
                               sheet_date)

\* a main summary row of a known category with a value and a balance whose
\* subcategory cell reads "sales total"
C20_Witness ==
    /\ sheet_pc = "done"
    /\ sheet.name = "P1_Table1_Main_Summary"
    /\ sheet.a2 = Str("Subtitle: JGB(10-year) Futures")
    /\ sheet.rows = << Row8(Str("<ji><ko><tori><hiki><kei>"), Str("<uru><ri>" \o GOKEI),
                            Str("100"), Str("^50")) >>
    /\ FirstMatch(subcategories, StrOrEmpty(sheet.rows[1][2])) = "SALES"
    /\ sheet_results = <<>>

\* the records of the sheet for the metric, in order
RecordsOf(metric) ==
    SelectSeq(sheet_results,
              LAMBDA d : SubSeq(d.code, Len(d.code) - Len(metric) - 2, Len(d.code))
                             = "." \o metric \o ".W")

\* C23: a row that passes the checks and resolves to a category and a
\* subcategory gives at most two data: a VALUE datum whose value is the
\* normalized 6th field, exactly when that is not empty, then a BALANCE datum
\* whose value is the normalized 8th field, exactly when that is not empty;
\* both carry the week key of the document.
C23_ValueAndBalance ==
    (sheet_pc = "done" /\ Len(sheet.rows) = 1) =>
        \A row \in {sheet.rows[1]} :
            ( /\ Len(row) >= 8
              /\ FirstMatch(subcategories, StrOrEmpty(row[2])) # ""
              /\ FirstMatch(IF table_type_of(sheet.name) = "main_summary"
                            THEN main_summary_categories ELSE brokerage_categories,
                            StrOrEmpty(row[1])) # ""
              /\ OneLabelledRow ) =>
                \A figures \in {<< handle_negative_values(row[6]),
                                   handle_negative_values(row[8]) >>},
                   values \in {RecordsOf("VALUE")}, balances \in {RecordsOf("BALANCE")} :
                    /\ Len(sheet_results) <= 2
                    /\ sheet_results = values \o balances
                    /\ Len(values) = IF figures[1] # "" THEN 1 ELSE 0
                    /\ Len(balances) = IF figures[2] # "" THEN 1 ELSE 0
                    /\ \A k \in DOMAIN values : values[k].value = figures[1]
                    /\ \A k \in DOMAIN balances : balances[k].value = figures[2]
                    /\ \A k \in DOMAIN sheet_results : sheet_results[k].date = sheet_date

\* a row with the value 1,234 and an empty balance gives the VALUE datum alone
C23_Witness ==
    /\ sheet_pc = "done"
    /\ OneLabelledRow
    /\ sheet.rows[1][6] = Str("1,234")
    /\ sheet.rows[1][8] = Str("")
    /\ Len(sheet_results) = 1
    /\ sheet_results[1].value = "1,234"
    /\ sheet_results[1].date = "2023-49"
    /\ Contains(sheet_results[1].code, ".VALUE.W")

\* C24: no datum carries a placeholder as its value: whatever the value and
\* balance fields hold, the value of a datum is never empty and never "-".
C24_Original ==
    sheet_pc = "done" =>
        \A k \in DOMAIN sheet_results :
            sheet_results[k].value # "" /\ sheet_results[k].value # "-"

(***************************************************************************)
(* Properties of the output file (SpecOutput).                             *)
(***************************************************************************)

\* the data hold a week key other than the marker
HasWeekKey(data) == \E k \in DOMAIN data : data[k].date # UNKNOWN_DATE

\* the index of the last datum of a (code, date) in the input, 0 when none
LastDatum(code, date) ==
    LET hits == {i \in DOMAIN all_data :
                    all_data[i].code = code /\ all_data[i].date = date}
    IN  IF hits = {} THEN 0 ELSE CHOOSE i \in hits : \A j \in hits : j <= i

\* C27: when the input holds several data of one (series code, week key),
\* the cell of the matrix holds the value of the one that comes last in the
\* input; every cell is fixed by the last datum of its own (code, week key)
\* alone, so duplicates affect no other cell.
C27_LastDatumWins ==
    pivot_pc = "saved" =>
        \A r \in 3..Len(workbook.rows) :
            \A c \in DOMAIN get_template_columns :
                \A k \in {LastDatum(get_template_columns[c].code, workbook.rows[r][1])} :
                    workbook.rows[r][c + 1] = IF k = 0 THEN "" ELSE all_data[k].value

\* two data of one template code and week with different values, and a third
\* datum of another cell; the shared cell holds the later value
C27_Witness ==
    /\ pivot_pc = "saved"
    /\ Len(all_data) = 3
    /\ \E i, j \in DOMAIN all_data :
          /\ i < j
          /\ all_data[i].code = CodeT1 /\ all_data[j].code = CodeT1
          /\ all_data[i].date = "2023-50" /\ all_data[j].date = "2023-50"
          /\ all_data[i].value = "100" /\ all_data[j].value = "-50"
          /\ \E r \in 3..Len(workbook.rows), c \in DOMAIN get_template_columns :
                /\ workbook.rows[r][1] = "2023-50"
                /\ get_template_columns[c].code = CodeT1
                /\ workbook.rows[r][c + 1] = "-50"
    /\ \E k \in DOMAIN all_data : all_data[k].code = CodeT2

\* C14: a workbook is saved only for a list of data that is not empty and
\* holds a valid week key, and then it has a row for each week and none for
\* the marker; generate_output_file called with an empty list, or with data
\* that all carry UNKNOWN_DATE, saves nothing; process_folders reaches the
\* call only with at least one extracted datum, and not at all when it found
\* no file or no datum.
C14_NoEmptyOutput ==
    /\ workbook # None =>
          /\ all_data # <<>> /\ HasWeekKey(all_data)
          /\ Len(workbook.rows) >= 3
          /\ \A r \in 3..Len(workbook.rows) :
                /\ workbook.rows[r][1] # UNKNOWN_DATE
                /\ \E k \in DOMAIN all_data : all_data[k].date = workbook.rows[r][1]
    /\ pivot_pc = "saved" => workbook # None
    /\ pivot_pc = "skipped" =>
          /\ workbook = None
          /\ all_data = <<>> \/ ~HasWeekKey(all_data)
    /\ (pivot_pc \in {"saved", "skipped"} /\ (all_data = <<>> \/ ~HasWeekKey(all_data))) =>
          pivot_pc = "skipped"
    /\ folders_pc \in {"start", "files", "no_files", "no_data"} =>
          pivot_pc = "idle" /\ workbook = None
    /\ folders_pc = "no_data" => master_data_list = <<>>
    /\ folders_pc = "success" =>
          /\ master_data_list # <<>>
          /\ all_data = master_data_list
          /\ pivot_pc \in {"saved", "skipped"}

C14_Witness ==
    /\ pivot_pc = "skipped"
    /\ all_data = <<>>
    /\ workbook = None
    /\ folders_pc = "idle"

(***************************************************************************)
(* Properties of the sheets of a workbook (SpecTitles).                    *)
(***************************************************************************)

\* the converted page that the table of a sheet comes from
PageOfSheet(sh) ==
    CHOOSE r \in Range(SelectSeq(page_results, IsSuccess)) : r.page_path = sh.table.page_path

\* the sheets of the workbooks written, each with its index (from 0), the
\* position of its table on its page and the page
ExportedSheets ==
    UNION { { [sh |-> excel_output[name][k], i |-> k - 1,
               pos |-> excel_output[name][k].table.pos,
               page |-> PdfOf(PageOfSheet(excel_output[name][k]))
                            .pages[PageOfSheet(excel_output[name][k]).page_number + 1]] :
              k \in DOMAIN excel_output[name] } : name \in DOMAIN excel_output }

\* the slot of a sheet is the index of its table in the document modulo 4
SlotByIndex(e) ==
    e.sh.name = "P" \o IntToStr((e.i \div 4) + 1) \o "_"
                    \o Prefix(table_names[(e.i % 4) + 1], 20)

IndexLabel(e) == "Table Title " \o IntToStr((e.pos % 4) + 1)

\* C18 as claimed: the slot of a table is its index modulo 4, and the table
\* title of a table on a page that yields fewer or more than 4 tables is the
\* index-based label "Table Title N".
C18_Original ==
    convert_pc = "done" =>
        \A e \in ExportedSheets :
            /\ SlotByIndex(e)
            /\ e.page.tables # 4 => e.sh.a3 = "Table Title: " \o IndexLabel(e)

\* C18: the slot of a table is its index in the combined document modulo 4;
\* its table title is, whatever the number of tables of its page, the entry
\* at its position on the page modulo 4 of the page's list of four titles:
\* the section titles whose keyword the page text holds, in keyword order,
\* then "Table Title N (Not Found)" up to four. The label "Table Title N"
\* is never assigned.
C18_TitlesByPosition ==
    convert_pc = "done" =>
        \A e \in ExportedSheets :
            \A found \in {FoundTitles(PageText(e.page.lines), Len(table_keywords))} :
                /\ SlotByIndex(e)
                /\ e.sh.a3 = "Table Title: " \o
                      (IF e.pos % 4 < Len(found) THEN found[(e.pos % 4) + 1]
                       ELSE IndexLabel(e) \o " (Not Found)")
                /\ e.sh.a3 # "Table Title: " \o IndexLabel(e)

\* a page of three tables followed by a page of five: the third table has a
\* "(Not Found)" title and the fifth table of the second page has the first
\* section title
C18_Witness ==
    /\ convert_pc = "done"
    /\ "A" \in DOMAIN excel_output
    /\ Len(excel_output["A"]) = 8
    /\ excel_output["A"][3].a3 = "Table Title: Table Title 3 (Not Found)"
    /\ excel_output["A"][8].table.pos = 4
    /\ excel_output["A"][8].name = "P2_Table4_Financial_Bre"
    /\ excel_output["A"][8].a3 = "Table Title: " \o table_section_titles[1]

\* C26: for every table of a combined document, whatever the table counts of
\* the pages, the slot in the sheet name (index in the document modulo 4, from
\* which the parser tells main_summary from brokerage_breakdown) is the
\* position of the table on its own page modulo 4 (the slot of its table
\* title and subtitle).
C26_Original ==
    convert_pc = "done" =>
        \A e \in ExportedSheets :
            /\ e.sh.name = "P" \o IntToStr((e.i \div 4) + 1) \o "_"
                               \o Prefix(table_names[(e.pos % 4) + 1], 20)
            /\ table_type_of(e.sh.name) = "main_summary" <=> e.pos % 4 = 0
            /\ table_type_of(e.sh.name) = "brokerage_breakdown" <=> e.pos % 4 = 1

(***************************************************************************)
(* Properties of the orchestrator (SpecWorkflow).                          *)
(***************************************************************************)

\* process_folders found no workbook, or no datum in any workbook
NoUsableData == folders_pc \in {"no_files", "no_data"}

\* C15: when no usable data reaches the consolidation step (no processable
\* file, or no datum extracted from any file), the pipeline ends with a
\* nonzero exit status and does not report stage 3 as complete.
C15_Original ==
    (orch_pc = "exited" /\ NoUsableData) =>
        /\ exit_status # 0
        /\ "Stage 3 Complete" \notin printed

\* C25: every subtitle that the classification captures is mapped to an
\* instrument code by extract_instrument_from_subtitle, on the page job and on
\* the sheets that the parser reads from the workbook, so that no sheet of a
\* selected page is skipped for want of an instrument.
C25_Original ==
    /\ \A j \in DOMAIN all_page_jobs :
          extract_instrument_from_subtitle(all_page_jobs[j].subtitle) # ""
    /\ \A f \in DOMAIN excel_files :
          \A k \in 2..Len(excel_files[f].sheets) :
              extract_instrument_from_subtitle(
                  read_excel_sheet(excel_files[f].sheets[k]).subtitle) # ""

\* the fetch stage left no input: the directory is missing or empty, or no
\* folder of it holds a PDF file
NoInput ==
    \/ scraper_output_dir = None
    \/ \A d \in scraper_output_dir.entries : ~d.is_dir \/ d.pdfs = <<>>

NoOutput ==
    /\ ConvIdle /\ FolderIdle /\ PivotIdle
    /\ excel_output_folders = <<>>

\* C16: when the fetch stage leaves no input, the orchestrator reports the
\* error and exits with status 1 before the conversion and the consolidation
\* run: no stage after the first is reported, and no workbook, intermediate
\* or final, is written.
C16_NoInputIsFatal ==
    /\ [][(orch_pc = "stage1" /\ NoInput) =>
              (NoInput' /\ NoOutput' /\ orch_pc' \in {"stage2", "exited"})]_vars
    /\ [][(orch_pc = "stage2" /\ NoInput) =>
              (NoInput' /\ NoOutput' /\ orch_pc' = "exited")]_vars
    /\ [][(orch_pc # "exited" /\ orch_pc' = "exited" /\ NoInput) =>
              /\ exit_status' = 1
              /\ "ERROR" \in printed'
              /\ printed' \cap {"Stage 2 Complete", "Stage 3 Complete",
                                "Workflow Complete"} = {}]_vars

\* a run over a directory that holds only a stray file and a folder without
\* a PDF file has ended
C16_Witness ==
    /\ orch_pc = "exited"
    /\ scraper_output_dir # None
    /\ \E d \in scraper_output_dir.entries : d.is_dir
    /\ \E d \in scraper_output_dir.entries : ~d.is_dir
    /\ pdf_source_folders = <<>>
    /\ "Stage 1 Complete" \in printed
    /\ exit_status = 1

(***************************************************************************)
(* Properties of the scraper (SpecScrape).                                 *)
(***************************************************************************)

\* the lines that the scraper prints about a report that a page yielded:
\* the file is on disk already, it was downloaded, or its download failed
ReportLines == {"skip", "downloaded", "failed"}

\* C28: in targeted mode, once a page has yielded the report row of the
\* configured (year, month, week), no further archive page is visited,
\* whether the report was downloaded, was on disk already, or failed to
\* download.
C28_Original ==
    config.mode = "targeted" =>
        \A i, j \in DOMAIN scrape_log :
            (i < j /\ scrape_log[i].msg \in ReportLines) => scrape_log[j].msg # "visit"

====
